---- MODULE Spec2Model ----
(***************************************************************************)
(* Atlas self-production pipeline: the ReviewQueue (review-queue.ts), the  *)
(* Integrator (integrator.ts) and the SelfProductionEngine (index.ts) of   *)
(* src/self-production, with the parts of the GapAnalyzer, CodeGenerator   *)
(* and AxisValidator they call.                                            *)
(*                                                                         *)
(* One action is one synchronous run of the JavaScript event loop: a whole *)
(* synchronous method, or the part of an async method between two awaits.  *)
(* Time (Date.now()) is the variable now; it advances by Tick only.        *)
(***************************************************************************)
EXTENDS Integers, Sequences, FiniteSets, TLC

\* ---------------------------------------------------------------- bounds
MaxItems == 2
MaxTime == 2
ExpirationTime == 1
MaxPending == 1

NoGen ==
  [id |-> 0, kind |-> "none", code |-> "none", target |-> "none", insertion |-> "none"]
NoFeedback == [decision |-> "none", modifications |-> "none"]
NoReviewer == "none"
Reviewers == {"alice", "bob"}

VARIABLES
  now,          \* Date.now()
  items,        \* every ReviewItem object ever created, by itemCounter value
  queued,       \* the keys of ReviewQueue.items (a Map keeps insertion order)
  itemCounter,  \* ReviewQueue.itemCounter
  ret,          \* what the last operation returned or threw
  reviewed      \* per item: the review calls that succeeded on it, and the last

queueVars == <<now, items, queued, itemCounter, ret, reviewed>>

VARIABLES
  generationCounter,   \* CodeGenerator.generationCounter
  minValidationScore,  \* SelfProductionConfig.minValidationScore (scaled)
  enableGeneration,    \* SelfProductionConfig.enableGeneration
  files,               \* the target files under baseDir: a text or NoFile
  backups,             \* the files of backupDir, by backup path
  history,             \* Integrator.history
  calls,               \* the integrate calls in flight
  cycle                \* the runCycle call in flight

engineVars ==
  <<generationCounter, minValidationScore, enableGeneration, files, backups, history, calls,
    cycle>>

vars == <<queueVars, engineVars>>

\* ------------------------------------------------------------ generic helpers
RECURSIVE SetToSeq(_)
SetToSeq(S) ==
  IF S = {} THEN <<>>
  ELSE LET m == CHOOSE x \in S : \A y \in S : x <= y
       IN <<m>> \o SetToSeq(S \ {m})

Range(s) == {s[k] : k \in 1..Len(s)}

\* ------------------------------------------------------------------- gaps
\* The (type, severity, suggested action) combinations GapAnalyzer.analyze
\* emits.
GapMisfit == [type |-> "domain_misfit", severity |-> "medium", action |-> "new_domain"]
GapRelationLow == [type |-> "relation_pattern", severity |-> "low", action |-> "new_relation"]
GapBoundary == [type |-> "stratum_boundary", severity |-> "low", action |-> "manual_review"]
GapClusterHigh == [type |-> "clustering_anomaly", severity |-> "high", action |-> "new_domain"]
GapTensionLow == [type |-> "axiom_tension", severity |-> "low", action |-> "manual_review"]
GapTensionCritical == [type |-> "axiom_tension", severity |-> "critical", action |-> "axiom_review"]

GapProfiles ==
  {GapMisfit, GapRelationLow, GapBoundary, GapClusterHigh, GapTensionLow, GapTensionCritical}

\* --------------------------------------------------------- code generator
\* The texts an artifact's code field can hold: what the CodeGenerator builds
\* for each kind, and two texts a reviewer can pass to modifyAndApprove.
GeneratedTexts == {"GenDomain", "GenCapability", "GenRelation", "GenConnector"}
EditedTexts == {"EditComplete", "EditBare"}

\* The texts validate can be given besides those: a domain or capability
\* definition whose name: field holds the name the text is called after.
NamedTexts ==
  {"DomainLiving", "DomainLivings", "CapabilityPersist", "CapabilityPersistBare",
   "CapabilitySense"}

\* Names are sequences of characters. NoName: the name: pattern matches
\* nothing in the text.
NoName == <<>>

\* The first match of /name:\s*['"](\w+)['"]/ in a text.
NameOf(code) ==
  CASE code = "GenDomain" -> <<"H", "Y", "B", "R", "I", "D">>
    [] code = "GenCapability" -> <<"A", "D", "A", "P", "T">>
    [] code = "GenRelation" -> <<"L", "I", "N", "K", "S">>
    [] code = "DomainLiving" -> <<"l", "i", "v", "i", "n", "g">>
    [] code = "DomainLivings" -> <<"L", "I", "V", "I", "N", "G", "S">>
    [] code \in {"CapabilityPersist", "CapabilityPersistBare"} -> <<"p", "e", "r", "s", "i", "s", "t">>
    [] code = "CapabilitySense" -> <<"S", "E", "N", "S", "E">>
    [] OTHER -> NoName

LowerLetters ==
  <<"a", "b", "c", "d", "e", "f", "g", "h", "i", "j", "k", "l", "m", "n", "o", "p", "q", "r", "s", "t", "u", "v", "w", "x", "y", "z">>

UpperLetters ==
  <<"A", "B", "C", "D", "E", "F", "G", "H", "I", "J", "K", "L", "M", "N", "O", "P", "Q", "R", "S", "T", "U", "V", "W", "X", "Y", "Z">>

LetterIndex(letters, ch) == CHOOSE k \in 1..Len(letters) : letters[k] = ch

toUpperCase(name) ==
  [k \in 1..Len(name) |->
     IF name[k] \in Range(LowerLetters)
     THEN UpperLetters[LetterIndex(LowerLetters, name[k])] ELSE name[k]]

toLowerCase(name) ==
  [k \in 1..Len(name) |->
     IF name[k] \in Range(UpperLetters)
     THEN LowerLetters[LetterIndex(UpperLetters, name[k])] ELSE name[k]]

existingCapabilities ==
  {<<"P", "E", "R", "S", "I", "S", "T">>,
   <<"S", "E", "L", "F", "_", "P", "R", "O", "D", "U", "C", "E">>,
   <<"F", "E", "E", "L">>,
   <<"E", "V", "A", "L", "U", "A", "T", "E">>,
   <<"R", "E", "P", "R", "E", "S", "E", "N", "T">>,
   <<"N", "O", "R", "M">>}

existingDomains ==
  {<<"I", "N", "E", "R", "T">>,
   <<"L", "I", "V", "I", "N", "G">>,
   <<"S", "E", "N", "T", "I", "E", "N", "T">>,
   <<"S", "Y", "M", "B", "O", "L", "I", "C">>,
   <<"C", "O", "L", "L", "E", "C", "T", "I", "V", "E">>,
   <<"I", "D", "E", "A", "L">>,
   <<"E", "P", "H", "E", "M", "E", "R", "A", "L">>,
   <<"A", "R", "T", "I", "F", "I", "C", "I", "A", "L">>}

getBigrams(str) == [k \in 1..(Len(str) - 1) |-> <<str[k], str[k + 1]>>]

\* stringSimilarity(a, b) > 0.7, the Dice coefficient of the bigrams of the
\* lower-cased names: 2 * intersection / (aBigrams + bBigrams), where the
\* intersection keeps every bigram of a that b has. Without bigrams on both
\* sides the quotient is NaN and the comparison false.
SimilarityThreshold == 7

stringSimilarityAbove(a, b) ==
  LET aBigrams == getBigrams(toLowerCase(a))
      bBigrams == getBigrams(toLowerCase(b))
      Shared(x) == x \in Range(bBigrams)
      intersection == SelectSeq(aBigrams, Shared)
  IN 10 * 2 * Len(intersection) > SimilarityThreshold * (Len(aBigrams) + Len(bBigrams))

ArtifactTexts == GeneratedTexts \cup EditedTexts \cup NamedTexts

\* What checkA5CapabilityEmergence and checkA10MinimalCharacterization find
\* out about the name of each text: it is an existing capability; it is
\* similar to an existing domain.
NameChecks ==
  [code \in ArtifactTexts |->
     [duplicate |-> /\ NameOf(code) # NoName
                    /\ toUpperCase(NameOf(code)) \in existingCapabilities,
      similar   |-> /\ NameOf(code) # NoName
                    /\ \E existing \in existingDomains :
                         stringSimilarityAbove(toUpperCase(NameOf(code)), existing)]]

\* What the validator's includes() and match() calls find in a text.
Features(code) ==
  [typicalClosure |-> code \in {"GenDomain", "EditComplete", "DomainLiving", "DomainLivings"},
   typicalScope   |-> code \in {"GenDomain", "EditComplete", "DomainLiving", "DomainLivings"},
   highClosureScope |-> FALSE,
   strataGap      |-> FALSE,
   emergentFrom   |-> IF code \in {"GenCapability", "CapabilityPersist", "CapabilitySense"}
                      THEN "valid" ELSE "none",
   requiresMissing |-> FALSE,
   duplicateName  |-> NameChecks[code].duplicate,
   similarName    |-> NameChecks[code].similar,
   composite      |-> FALSE]

KindOfAction(action) ==
  CASE action = "new_domain" -> "domain"
    [] action = "new_capability" -> "capability"
    [] action = "new_relation" -> "relation"
    [] action = "new_connector" -> "connector"
    [] OTHER -> "none"

TargetOf(kind) ==
  CASE kind = "domain" -> "domains.ts"
    [] kind = "capability" -> "capabilities.ts"
    [] kind = "relation" -> "relations.ts"
    [] OTHER -> "connector.ts"

TextOf(kind) ==
  CASE kind = "domain" -> "GenDomain"
    [] kind = "capability" -> "GenCapability"
    [] kind = "relation" -> "GenRelation"
    [] OTHER -> "GenConnector"

\* The insertionPoint each generate* method sets: after a marker line, or
\* append for a connector.
InsertionMode(kind) == IF kind = "connector" THEN "append" ELSE "after"

GenerateDomainForAnyGap(gap, genId) ==
  LET kind == IF KindOfAction(gap.action) = "none" THEN "domain"
              ELSE KindOfAction(gap.action)
  IN [id |-> genId, kind |-> kind, code |-> TextOf(kind), target |-> TargetOf(kind),
      insertion |-> InsertionMode(kind)]

\* CodeGenerator.generate: null (NoGen) for manual_review and axiom_review.
Generate(gap, genId) ==
  LET kind == KindOfAction(gap.action)
  IN IF kind = "none" THEN NoGen
     ELSE [id |-> genId, kind |-> kind, code |-> TextOf(kind), target |-> TargetOf(kind),
           insertion |-> InsertionMode(kind)]

\* justifyDomain / justifyCapability / justifyRelation / justifyConnector:
\* the axioms self-flagged needs_review and overallCompliance in percent.
Justification(kind) ==
  CASE kind = "domain" -> [needsReview |-> {"A3", "A10"}, overallCompliance |-> 85]
    [] kind = "capability" -> [needsReview |-> {"A10"}, overallCompliance |-> 90]
    [] kind = "relation" -> [needsReview |-> {"A10"}, overallCompliance |-> 85]
    [] OTHER -> [needsReview |-> {}, overallCompliance |-> 100]

\* ---------------------------------------------------------- AXIS validator
AXIOMS ==
  <<[id |-> "A1", checkable |-> FALSE, criticalFor |-> {"domain"}],
    [id |-> "A2", checkable |-> TRUE, criticalFor |-> {"domain", "capability"}],
    [id |-> "A3", checkable |-> TRUE, criticalFor |-> {"domain"}],
    [id |-> "A4", checkable |-> TRUE, criticalFor |-> {"capability", "domain"}],
    [id |-> "A5", checkable |-> TRUE, criticalFor |-> {"capability"}],
    [id |-> "A6", checkable |-> FALSE, criticalFor |-> {}],
    [id |-> "A7", checkable |-> FALSE, criticalFor |-> {}],
    [id |-> "A8", checkable |-> FALSE, criticalFor |-> {"domain"}],
    [id |-> "A9", checkable |-> FALSE, criticalFor |-> {}],
    [id |-> "A10", checkable |-> TRUE, criticalFor |-> {"domain", "capability", "relation"}]>>

Outcome(violated, warning, fatal, requiresReview) ==
  [violated |-> violated, warning |-> warning, fatal |-> fatal,
   requiresReview |-> requiresReview]

Pass == Outcome(FALSE, FALSE, FALSE, FALSE)

checkA2Configuration(kind, f) ==
  IF kind = "domain" /\ (~f.typicalClosure \/ ~f.typicalScope)
  THEN Outcome(TRUE, FALSE, FALSE, FALSE)
  ELSE Pass

checkA3ClosureScope(kind, f) ==
  IF kind = "domain" /\ f.typicalClosure /\ f.typicalScope /\ f.highClosureScope
  THEN Outcome(FALSE, TRUE, FALSE, TRUE)
  ELSE Pass

checkA4StratalNesting(kind, f) ==
  IF kind = "capability" /\ f.emergentFrom = "invalid" THEN Outcome(TRUE, FALSE, TRUE, FALSE)
  ELSE IF kind = "capability" /\ f.emergentFrom = "valid" /\ f.requiresMissing
       THEN Outcome(FALSE, TRUE, FALSE, TRUE)
  ELSE IF kind = "domain" /\ f.strataGap THEN Outcome(TRUE, FALSE, TRUE, FALSE)
  ELSE Pass

checkA5CapabilityEmergence(kind, f) ==
  IF kind = "capability" /\ f.emergentFrom = "none" THEN Outcome(TRUE, FALSE, TRUE, FALSE)
  ELSE IF kind = "capability" /\ f.duplicateName THEN Outcome(TRUE, FALSE, TRUE, FALSE)
  ELSE Pass

checkA10MinimalCharacterization(kind, f) ==
  IF kind = "domain" /\ f.similarName THEN Outcome(FALSE, TRUE, FALSE, TRUE)
  ELSE IF kind = "capability" /\ f.composite THEN Outcome(FALSE, TRUE, FALSE, TRUE)
  ELSE Pass

\* checkAxiom with the axioms that have no check counted as passed.
checkAxiomPassingUnchecked(axiom, kind, f) ==
  CASE axiom.id = "A2" -> checkA2Configuration(kind, f)
    [] axiom.id = "A3" -> checkA3ClosureScope(kind, f)
    [] axiom.id = "A4" -> checkA4StratalNesting(kind, f)
    [] axiom.id = "A5" -> checkA5CapabilityEmergence(kind, f)
    [] axiom.id = "A10" -> checkA10MinimalCharacterization(kind, f)
    [] OTHER -> Pass

checkAxiom(axiom, kind, f) ==
  CASE axiom.id = "A2" -> checkA2Configuration(kind, f)
    [] axiom.id = "A3" -> checkA3ClosureScope(kind, f)
    [] axiom.id = "A4" -> checkA4StratalNesting(kind, f)
    [] axiom.id = "A5" -> checkA5CapabilityEmergence(kind, f)
    [] axiom.id = "A10" -> checkA10MinimalCharacterization(kind, f)
    [] OTHER -> Outcome(FALSE, ~axiom.checkable, FALSE,
                        ~axiom.checkable /\ kind \in axiom.criticalFor)

\* validateJustification: one review-flagged warning for a low self-assessed
\* compliance and one per axiom self-flagged needs_review.
validateJustification(j) ==
  (IF j.overallCompliance < 70 THEN 1 ELSE 0) + Cardinality(j.needsReview)

\* Scores are kept as integers: score * ScoreScale, a multiple of every
\* denominator that occurs (3, 4, 7, 9 axioms; tenths).
ScoreScale == 2 * 2 * 3 * 3 * 5 * 7

MinValidationScoreDefault == (7 * ScoreScale) \div 10

validate(kind, code) ==
  LET f == Features(code)
      relevant == {k \in 1..Len(AXIOMS) :
                     kind \in AXIOMS[k].criticalFor \/ AXIOMS[k].criticalFor = {}}
      res(k) == checkAxiom(AXIOMS[k], kind, f)
      violations == {k \in relevant : res(k).violated}
      warned == {k \in relevant : ~res(k).violated /\ res(k).warning}
      passed == relevant \ (violations \cup warned)
      reviewReasons == {k \in warned : res(k).requiresReview}
      reviewWarnings == Cardinality(reviewReasons) + validateJustification(Justification(kind))
      raw == (Cardinality(passed) * ScoreScale) \div Cardinality(relevant)
               - reviewWarnings * (ScoreScale \div 10)
  IN [valid |-> violations = {},
      score |-> IF raw < 0 THEN 0 ELSE raw,
      violations |-> {[axiomId |-> AXIOMS[k].id,
                       severity |-> IF res(k).fatal THEN "fatal" ELSE "error"] : k \in violations},
      passed |-> {AXIOMS[k].id : k \in passed},
      reviewWarnings |-> reviewWarnings,
      requiresHumanReview |-> reviewReasons # {} \/ \E k \in violations : ~res(k).fatal]

\* ------------------------------------------------------------ review queue
NoValidation == [valid |-> FALSE, score |-> -1]

\* determinePriority(gap, validation)
determinePriority(gap, validation) ==
  IF gap.type = "axiom_tension" THEN "critical"
  ELSE IF validation.violations # {} THEN "high"
  ELSE IF gap.severity = "critical" THEN "critical"
  ELSE IF gap.severity = "high" THEN "high"
  ELSE IF gap.severity = "medium" THEN "medium"
  ELSE "low"

GapReviewPriority(gap) ==
  IF gap.severity = "critical" THEN "critical"
  ELSE IF gap.severity = "high" THEN "high" ELSE "medium"

AxiomReviewPriority(gap) ==
  IF gap.severity = "critical" THEN "critical" ELSE "high"

NewItem(type, gap, gen, validation, priority, t) ==
  [type |-> type, status |-> "pending", priority |-> priority, gap |-> gap,
   gen |-> gen, validation |-> validation,
   createdAt |-> t, expiresAt |-> t + ExpirationTime,
   reviewer |-> NoReviewer, feedback |-> NoFeedback]

priorityOrder(p) ==
  CASE p = "critical" -> 0 [] p = "high" -> 1 [] p = "medium" -> 2 [] OTHER -> 3

ComparePendingNewestFirst(a, b) ==
  IF priorityOrder(a.priority) - priorityOrder(b.priority) # 0
  THEN priorityOrder(a.priority) - priorityOrder(b.priority)
  ELSE b.createdAt - a.createdAt

\* The comparator of listPending's sort: by priority, then by age.
ComparePending(a, b) ==
  IF priorityOrder(a.priority) - priorityOrder(b.priority) # 0
  THEN priorityOrder(a.priority) - priorityOrder(b.priority)
  ELSE a.createdAt - b.createdAt

\* The comparator of enforceMaxPending's sort of the low-priority items.
CompareAge(a, b) == a.createdAt - b.createdAt

\* The comparator of listAll's sort: newest first.
CompareNewest(a, b) == b.createdAt - a.createdAt

Compare(mode, a, b) ==
  CASE mode = "pending" -> ComparePending(a, b)
    [] mode = "age" -> CompareAge(a, b)
    [] OTHER -> CompareNewest(a, b)

\* Array.prototype.sort is stable: an element goes after every element that
\* does not compare greater.  s is a sequence of item ids, its the items.
RECURSIVE InsertStable(_, _, _, _)
InsertStable(its, s, x, mode) ==
  IF s = <<>> THEN <<x>>
  ELSE IF Compare(mode, its[Head(s)], its[x]) <= 0
       THEN <<Head(s)>> \o InsertStable(its, Tail(s), x, mode)
       ELSE <<x>> \o s

RECURSIVE SortStable(_, _, _)
SortStable(its, s, mode) ==
  IF s = <<>> THEN <<>>
  ELSE InsertStable(its, SortStable(its, SubSeq(s, 1, Len(s) - 1), mode), s[Len(s)], mode)

\* Array.from(this.items.values()): the queued items in insertion order.
Values(qd) == SetToSeq(qd)

PastDeadline(item, t) == item.expiresAt < t

\* expireOldItems
IsOverdue(item, t) == item.status = "pending" /\ item.expiresAt < t

expireOldItems(its, qd, t) ==
  [i \in DOMAIN its |->
     IF i \in qd /\ IsOverdue(its[i], t)
     THEN [its[i] EXCEPT !.status = "expired"]
     ELSE its[i]]

\* The value listPending returns, after its sweep.
PendingSorted(its, qd) ==
  LET IsPending(i) == its[i].status = "pending"
  IN SortStable(its, SelectSeq(Values(qd), IsPending), "pending")

\* enforceMaxPending: listPending (with its sweep), then the oldest
\* low-priority items are expired while the excess lasts.
enforceMaxPending(its, qd, t) ==
  LET swept == expireOldItems(its, qd, t)
      pending == PendingSorted(swept, qd)
      IsLow(i) == swept[i].priority = "low"
      lowPriority == SortStable(swept, SelectSeq(pending, IsLow), "age")
      toRemove == Len(pending) - MaxPending
      victims == {lowPriority[k] : k \in 1..(IF toRemove < Len(lowPriority)
                                               THEN toRemove ELSE Len(lowPriority))}
  IN IF Len(pending) > MaxPending
     THEN [i \in DOMAIN swept |->
             IF i \in victims
             THEN [swept[i] EXCEPT !.status = "expired"]
             ELSE swept[i]]
     ELSE swept

\* What a caller sees of a returned item.
Snapshot(its, i) ==
  [id |-> i, type |-> its[i].type, status |-> its[i].status,
   priority |-> its[i].priority, createdAt |-> its[i].createdAt,
   expiresAt |-> its[i].expiresAt]

Snapshots(its, s) == [k \in 1..Len(s) |-> Snapshot(its, s[k])]

Ret(op, id, outcome, list, pending) ==
  [op |-> op, id |-> id, outcome |-> outcome, list |-> list, pending |-> pending]

NoRet == Ret("none", 0, "ok", <<>>, 0)

NoWinner == [op |-> "none", reviewer |-> NoReviewer, modifications |-> "none"]

NotReviewed == [wins |-> 0, winner |-> NoWinner]

\* addCodeReview / addGapReview / addAxiomReview: the items after the call.
addCodeReview(its, qd, gap, gen, validation, t) ==
  enforceMaxPending(
    Append(its, NewItem("code_generation", gap, gen,
                        [valid |-> validation.valid, score |-> validation.score],
                        determinePriority(gap, validation), t)),
    qd \cup {Len(its) + 1}, t)

addGapReview(its, qd, gap, t) ==
  enforceMaxPending(
    Append(its, NewItem("gap_detection", gap, NoGen, NoValidation, GapReviewPriority(gap), t)),
    qd \cup {Len(its) + 1}, t)

addAxiomReview(its, qd, gap, t) ==
  Append(its, NewItem("axiom_tension", gap, NoGen, NoValidation, AxiomReviewPriority(gap), t))

ReviewableOrExpired(item) == item.status \in {"pending", "expired"}

AnyStatus(item) == TRUE

\* The guard of approve, reject and modifyAndApprove.
IsPendingItem(item) == item.status = "pending"

approve(its, i, reviewer, t) ==
  [its EXCEPT ![i].status = "approved", ![i].reviewer = reviewer,
              ![i].feedback = [decision |-> "approve", modifications |-> "none"]]

reject(its, i, reviewer, t) ==
  [its EXCEPT ![i].status = "rejected", ![i].reviewer = reviewer,
              ![i].feedback = [decision |-> "reject", modifications |-> "none"]]

modifyAndApprove(its, i, reviewer, modifications, t) ==
  [its EXCEPT ![i].status = "modified", ![i].reviewer = reviewer,
              ![i].feedback = [decision |-> "modify", modifications |-> modifications],
              ![i].gen = IF its[i].gen # NoGen
                         THEN [its[i].gen EXCEPT !.code = modifications]
                         ELSE its[i].gen]

ReviewOps == {"approve", "reject", "modifyAndApprove"}

StatusAfter(op) ==
  CASE op = "approve" -> "approved" [] op = "reject" -> "rejected" [] OTHER -> "modified"

DecisionOf(op) ==
  CASE op = "approve" -> "approve" [] op = "reject" -> "reject" [] OTHER -> "modify"

\* ------------------------------------------------- review queue: actions
AddCodeReview(gap) ==
  /\ itemCounter < MaxItems
  /\ KindOfAction(gap.action) # "none"
  /\ LET gen == Generate(gap, generationCounter + 1)
     IN items' = addCodeReview(items, queued, gap, gen, validate(gen.kind, gen.code), now)
  /\ generationCounter' = generationCounter + 1
  /\ itemCounter' = itemCounter + 1
  /\ queued' = queued \cup {itemCounter + 1}
  /\ ret' = Ret("add", itemCounter + 1, "ok", <<>>, 0)
  /\ UNCHANGED <<now, reviewed, minValidationScore, enableGeneration, files, backups, history, calls, cycle>>

AddGapReview(gap) ==
  /\ itemCounter < MaxItems
  /\ items' = addGapReview(items, queued, gap, now)
  /\ itemCounter' = itemCounter + 1
  /\ queued' = queued \cup {itemCounter + 1}
  /\ ret' = Ret("add", itemCounter + 1, "ok", <<>>, 0)
  /\ UNCHANGED <<now, reviewed, engineVars>>

AddAxiomReview(gap) ==
  /\ itemCounter < MaxItems
  /\ items' = addAxiomReview(items, queued, gap, now)
  /\ itemCounter' = itemCounter + 1
  /\ queued' = queued \cup {itemCounter + 1}
  /\ ret' = Ret("add", itemCounter + 1, "ok", <<>>, 0)
  /\ UNCHANGED <<now, reviewed, engineVars>>

\* approve(id, reviewer), reject(id, reviewer, reason) and
\* modifyAndApprove(id, reviewer, modifications): a throw leaves everything
\* as it was.
Review(op, i, reviewer, modifications) ==
  /\ IF i \notin queued
     THEN /\ ret' = Ret(op, i, "not_found", <<>>, 0)
          /\ UNCHANGED <<items, reviewed>>
     ELSE IF ~IsPendingItem(items[i])
     THEN /\ ret' = Ret(op, i, "not_pending", <<>>, 0)
          /\ UNCHANGED <<items, reviewed>>
     ELSE /\ items' = CASE op = "approve" -> approve(items, i, reviewer, now)
                        [] op = "reject" -> reject(items, i, reviewer, now)
                        [] OTHER -> modifyAndApprove(items, i, reviewer, modifications, now)
          /\ ret' = Ret(op, i, "ok", <<>>, 0)
          /\ reviewed' = [reviewed EXCEPT
                            ![i].wins = @ + 1,
                            ![i].winner = [op |-> op, reviewer |-> reviewer,
                                           modifications |-> modifications]]
  /\ UNCHANGED <<now, queued, itemCounter, engineVars>>

Approve(i, reviewer) == Review("approve", i, reviewer, "none")

Reject(i, reviewer) == Review("reject", i, reviewer, "none")

ModifyAndApprove(i, reviewer, modifications) ==
  Review("modifyAndApprove", i, reviewer, modifications)

ListPending ==
  /\ items' = expireOldItems(items, queued, now)
  /\ ret' = LET list == PendingSorted(items', queued)
            IN Ret("listPending", 0, "ok", Snapshots(items', list), Len(list))
  /\ UNCHANGED <<now, queued, itemCounter, reviewed, engineVars>>

GetStats ==
  /\ items' = expireOldItems(items, queued, now)
  /\ ret' = Ret("getStats", 0, "ok", <<>>,
                Cardinality({i \in queued : items'[i].status = "pending"}))
  /\ UNCHANGED <<now, queued, itemCounter, reviewed, engineVars>>

ListAll ==
  /\ ret' = Ret("listAll", 0, "ok",
                Snapshots(items, SortStable(items, Values(queued), "newest")), 0)
  /\ UNCHANGED <<now, items, queued, itemCounter, reviewed, engineVars>>

GetByType(type) ==
  /\ ret' = LET HasType(i) == items[i].type = type
            IN Ret("getByType", 0, "ok", Snapshots(items, SelectSeq(Values(queued), HasType)), 0)
  /\ UNCHANGED <<now, items, queued, itemCounter, reviewed, engineVars>>

Export ==
  /\ ret' = Ret("export", 0, "ok", Snapshots(items, Values(queued)), 0)
  /\ UNCHANGED <<now, items, queued, itemCounter, reviewed, engineVars>>

Tick ==
  /\ now < MaxTime
  /\ now' = now + 1
  /\ ret' = NoRet
  /\ UNCHANGED <<items, queued, itemCounter, reviewed, engineVars>>

\* ------------------------------------------------------------ integrator
MaxCalls == 2
MaxGenerated == 2
MaxPendingReviews == 2

\* A file of baseDir: whether it exists, and its text as a sequence of
\* pieces.  A piece is a marker line or the code of one artifact.
NoFile == [exists |-> FALSE, content |-> <<>>]
Piece(genId, text) == [gen |-> genId, text |-> text]
Marker == Piece(0, "AUTO-GENERATED BELOW")
FallbackMarker == Piece(0, "AUTO-GENERATED CODE BELOW")
Header == Piece(0, "header")
BaseFile == [exists |-> TRUE, content |-> <<Header, Marker>>]

Targets == {TargetOf(k) : k \in {"domain", "relation"}}

\* The text a hand-written artifact's insertionPoint.replace names.
Placeholder == Piece(0, "PLACEHOLDER")

\* GeneratedCode.insertionPoint as the generator sets it.
InsertionPoint(kind) ==
  IF kind = "connector" THEN [mode |-> "append", marker |-> Marker]
  ELSE [mode |-> "after", marker |-> Marker]

\* generated.insertionPoint of an artifact: the generator's, or the replace
\* point of a hand-written artifact.
InsertionOf(gen) ==
  IF gen.insertion = "replace" THEN [mode |-> "replace", marker |-> Placeholder]
  ELSE IF gen.insertion = InsertionPoint(gen.kind).mode THEN InsertionPoint(gen.kind)
  ELSE [mode |-> gen.insertion, marker |-> Marker]

\* content.indexOf(marker): the first position, 0 when absent.
IndexOf(content, marker) ==
  IF \E k \in 1..Len(content) : content[k] = marker
  THEN CHOOSE k \in 1..Len(content) :
         content[k] = marker /\ \A l \in 1..(k - 1) : content[l] # marker
  ELSE 0

applyInsertion(content, newCode, insertion) ==
  LET at == IndexOf(content, insertion.marker)
      n == Len(content)
  IN CASE insertion.mode = "append" -> content \o <<newCode>>
       [] insertion.mode = "replace" ->
            IF at = 0 THEN content
            ELSE SubSeq(content, 1, at - 1) \o <<newCode>> \o SubSeq(content, at + 1, n)
       [] insertion.mode = "after" ->
            IF at = 0 THEN content \o <<FallbackMarker, newCode>>
            ELSE SubSeq(content, 1, at) \o <<newCode>> \o SubSeq(content, at + 1, n)
       [] insertion.mode = "before" ->
            IF at = 0 THEN <<newCode>> \o content
            ELSE SubSeq(content, 1, at - 1) \o <<newCode>> \o SubSeq(content, at, n)
       [] OTHER -> content \o <<newCode>>

wrapNewFile(gen) == <<Header, Piece(gen.id, gen.code)>>

applyCodeReportsModified(file, gen) ==
  [file |-> [exists |-> TRUE,
             content |-> IF file.exists
                         THEN applyInsertion(file.content, Piece(gen.id, gen.code),
                                             InsertionOf(gen))
                         ELSE wrapNewFile(gen)],
   action |-> "modified"]

\* applyCode: the file after the call, and the action it reports.
applyCode(file, gen) ==
  IF ~file.exists
  THEN [file |-> [exists |-> TRUE, content |-> wrapNewFile(gen)], action |-> "created"]
  ELSE [file |-> [exists |-> TRUE,
                  content |-> applyInsertion(file.content, Piece(gen.id, gen.code),
                                             InsertionOf(gen))],
        action |-> "modified"]

\* createBackup: the backup's path is made of the file name, Date.now() and
\* the artifact's id.
NoPath == <<>>
BackupPath(target, t, genId) == <<target, t, genId>>

createBackup(bk, file, path) ==
  [p \in DOMAIN bk \cup {path} |-> IF p = path THEN file.content ELSE bk[p]]

NoBackups == [p \in {} |-> <<>>]

\* An integrate call in flight: the item it was given, who called it, where
\* it stands, its backup, and what it read and wrote.
Call(i, via, pc, backup, action, before, applied) ==
  [item |-> i, via |-> via, pc |-> pc, backup |-> backup, action |-> action,
   before |-> before, applied |-> applied, rest |-> <<>>, atCall |-> NoFile]

\* IntegrationHistoryEntry; via, action, atCall, before and applied record
\* who called integrate, the action it returned, the target when it was
\* called and what the integration read and wrote.
HistoryEntry(c, t) ==
  [id |-> t, reviewItemId |-> c.item, generatedCodeId |-> items[c.item].gen.id,
   kind |-> items[c.item].gen.kind, targetFile |-> items[c.item].gen.target,
   integratedBy |-> IF items[c.item].reviewer = NoReviewer THEN "system"
                    ELSE items[c.item].reviewer,
   canRollback |-> c.backup # NoPath, backupPath |-> c.backup,
   via |-> c.via, action |-> c.action, atCall |-> c.atCall,
   before |-> c.before, applied |-> c.applied]

NoCycle ==
  [pc |-> "idle", entities |-> <<>>, gaps |-> <<>>, next |-> 0, gen |-> NoGen,
   failed |-> {}, validationsPassed |-> 0, errors |-> <<>>]

Init ==
  /\ now = 0
  /\ items = <<>>
  /\ queued = {}
  /\ itemCounter = 0
  /\ ret = NoRet
  /\ reviewed = [i \in 1..MaxItems |-> NotReviewed]
  /\ generationCounter = 0
  /\ minValidationScore = MinValidationScoreDefault
  /\ enableGeneration = TRUE
  /\ files = [t \in Targets |-> NoFile]
  /\ backups = NoBackups
  /\ history = <<>>
  /\ calls = <<>>
  /\ cycle = NoCycle

ItemTypes == {"code_generation", "gap_detection", "axiom_tension"}

NextQueue ==
  \/ \E g \in {GapRelationLow, GapMisfit} : AddCodeReview(g)
  \/ \E g \in {GapBoundary} : AddGapReview(g)
  \/ \E g \in {GapTensionCritical} : AddAxiomReview(g)
  \/ \E i \in 1..MaxItems, r \in Reviewers : Approve(i, r)
  \/ \E i \in 1..MaxItems, r \in Reviewers : Reject(i, r)
  \/ \E i \in 1..MaxItems, r \in Reviewers, m \in {"EditComplete"} : ModifyAndApprove(i, r, m)
  \/ ListPending
  \/ GetStats
  \/ ListAll
  \/ \E ty \in ItemTypes : GetByType(ty)
  \/ Export
  \/ Tick

SpecQueue == Init /\ [][NextQueue]_vars

\* ------------------------------------------------- integrator: actions
DoneCall == Call(0, "none", "done", NoPath, "none", <<>>, "none")

\* integrate(reviewItem) up to its first await: the files and backups after
\* it, the call it leaves in flight (none when it returned) and its outcome.
\* An item without an artifact is refused; an existing target is copied to
\* the backup directory and the call waits; a missing target is created at
\* once by applyCode.  rest is what the caller will do after the call.
integrateBegin(i, via, rest) ==
  LET gen == items[i].gen
      target == gen.target
  IN IF gen = NoGen
     THEN [files |-> files, backups |-> backups, started |-> <<>>, outcome |-> "failed"]
     ELSE IF files[target].exists
     THEN LET path == BackupPath(target, now, gen.id)
          IN [files |-> files,
              backups |-> createBackup(backups, files[target], path),
              started |-> <<[Call(i, via, "apply", path, "none", <<>>, "none")
                               EXCEPT !.rest = rest, !.atCall = files[target]]>>,
              outcome |-> "started"]
     ELSE LET applied == applyCode(files[target], gen)
          IN [files |-> [files EXCEPT ![target] = applied.file],
              backups |-> backups,
              started |-> <<[Call(i, via, "record", NoPath, applied.action,
                                  files[target].content, gen.code)
                               EXCEPT !.rest = rest, !.atCall = files[target]]>>,
              outcome |-> "started"]

IntegrateBegin(i, via) ==
  LET begun == integrateBegin(i, via, <<>>)
  IN /\ files' = begun.files
     /\ backups' = begun.backups
     /\ calls' = calls \o begun.started
     /\ ret' = Ret("integrate", i, begun.outcome, <<>>, 0)

\* Integrator.integrate called with a review item, whatever its status.
IntegrateDirect(i) ==
  /\ Len(calls) < MaxCalls
  /\ i \in 1..Len(items)
  /\ IntegrateBegin(i, "direct")
  /\ UNCHANGED <<now, items, queued, itemCounter, reviewed,
                 generationCounter, minValidationScore, enableGeneration, history, cycle>>

\* SelfProductionEngine.integrateApproved up to its await.
IntegrateApproved(i) ==
  /\ Len(calls) < MaxCalls
  /\ IF i \notin queued
     THEN /\ ret' = Ret("integrateApproved", i, "not_found", <<>>, 0)
          /\ UNCHANGED <<files, backups, calls>>
     ELSE IF items[i].status \notin {"approved", "modified"}
     THEN /\ ret' = Ret("integrateApproved", i, "not_approved", <<>>, 0)
          /\ UNCHANGED <<files, backups, calls>>
     ELSE IntegrateBegin(i, "approved")
  /\ UNCHANGED <<now, items, queued, itemCounter, reviewed,
                 generationCounter, minValidationScore, enableGeneration, history, cycle>>

\* integrate after "await this.createBackup": applyCode reads the target,
\* inserts the artifact's code and writes the target back.
IntegrateApply(c) ==
  /\ c \in 1..Len(calls)
  /\ calls[c].pc = "apply"
  /\ LET gen == items[calls[c].item].gen
         applied == applyCode(files[gen.target], gen)
     IN /\ files' = [files EXCEPT ![gen.target] = applied.file]
        /\ calls' = [calls EXCEPT ![c].pc = "record", ![c].action = applied.action,
                                  ![c].before = files[gen.target].content,
                                  ![c].applied = gen.code]
  /\ UNCHANGED <<queueVars, generationCounter, minValidationScore, enableGeneration, backups, history, cycle>>

\* integrate after "await this.applyCode": the history entry is pushed and
\* the call returns success.
IntegrateRecord(c) ==
  /\ c \in 1..Len(calls)
  /\ calls[c].pc = "record"
  /\ history' = Append(history, HistoryEntry(calls[c], now))
  /\ calls' = [calls EXCEPT ![c] = IF calls[c].via # "direct"
                                   THEN [calls[c] EXCEPT !.pc = "returned"]
                                   ELSE DoneCall]
  /\ ret' = Ret("integrate", calls[c].item, "ok", <<>>, 0)
  /\ UNCHANGED <<now, items, queued, itemCounter, reviewed,
                 generationCounter, minValidationScore, enableGeneration, files, backups, cycle>>

\* integrateApproved after its await: markIntegrated deletes the item.
IntegrateApprovedFinish(c) ==
  /\ c \in 1..Len(calls)
  /\ calls[c].pc = "returned"
  /\ calls[c].via = "approved"
  /\ queued' = queued \ {calls[c].item}
  /\ calls' = [calls EXCEPT ![c] = DoneCall]
  /\ ret' = Ret("integrateApproved", calls[c].item, "ok", <<>>, 0)
  /\ UNCHANGED <<now, items, itemCounter, reviewed,
                 generationCounter, minValidationScore, enableGeneration, files, backups, history, cycle>>

\* ------------------------------------------------------ engine: runCycle
ActionableActions == {"new_domain", "new_capability", "new_relation", "new_connector"}

GapsWithAction(gaps, actions) ==
  LET Wanted(g) == g.action \in actions
  IN SelectSeq(gaps, Wanted)

\* Phase 4 and phase 5: one addGapReview or addAxiomReview per gap, in order.
\* q is the queue: its item objects and the keys of its map.
RECURSIVE AddGapReviews(_, _, _)
AddGapReviews(q, gaps, t) ==
  IF gaps = <<>> THEN q
  ELSE AddGapReviews([items |-> addGapReview(q.items, q.queued, Head(gaps), t),
                      queued |-> q.queued \cup {Len(q.items) + 1}],
                     Tail(gaps), t)

RECURSIVE AddAxiomReviews(_, _, _)
AddAxiomReviews(q, gaps, t) ==
  IF gaps = <<>> THEN q
  ELSE AddAxiomReviews([items |-> addAxiomReview(q.items, q.queued, Head(gaps), t),
                        queued |-> q.queued \cup {Len(q.items) + 1}],
                       Tail(gaps), t)

PendingCount(its, qd) == Cardinality({i \in qd : its[i].status = "pending"})

\* The condition under which runCycle queues an artifact for review.
ValidationPassed(validation, minScore) ==
  validation.valid /\ validation.score >= minScore

\* The loop of phase 2 from its k-th gap on, up to the next await: generate
\* is called for the k-th actionable gap, or, when none is left, phases 4 and
\* 5 run, getStats is read and runCycle returns.
CycleContinue(its, qd, cyc, k) ==
  LET actionable == GapsWithAction(cyc.gaps, ActionableActions)
  IN IF k <= Len(actionable)
     THEN /\ generationCounter' = generationCounter + 1
          /\ cycle' = [cyc EXCEPT !.pc = "generated", !.next = k,
                                  !.gen = Generate(actionable[k], generationCounter + 1)]
          /\ items' = its
          /\ queued' = qd
          /\ itemCounter' = Len(its)
          /\ ret' = Ret("runCycle", 0, "started", <<>>, 0)
     ELSE LET manual == AddGapReviews([items |-> its, queued |-> qd],
                                      GapsWithAction(cyc.gaps, {"manual_review"}), now)
              axiom == AddAxiomReviews(manual, GapsWithAction(cyc.gaps, {"axiom_review"}), now)
              swept == expireOldItems(axiom.items, axiom.queued, now)
          IN /\ items' = swept
             /\ queued' = axiom.queued
             /\ itemCounter' = Len(swept)
             /\ cycle' = [cyc EXCEPT !.pc = "done", !.gen = NoGen]
             /\ ret' = Ret("runCycle", 0, "ok", <<>>, PendingCount(swept, axiom.queued))
             /\ UNCHANGED generationCounter

\* runCycle(entities) up to "await this.gapAnalyzer.analyze(entities)", with
\* the gaps the analysis returns.
RunCycleStart(entities, gaps) ==
  /\ cycle.pc \in {"idle", "done"}
  /\ itemCounter + Len(gaps) <= MaxItems
  /\ generationCounter + Len(GapsWithAction(gaps, ActionableActions)) <= MaxGenerated
  /\ cycle' = [NoCycle EXCEPT !.pc = "analyzed", !.entities = entities, !.gaps = gaps]
  /\ ret' = Ret("runCycle", 0, "started", <<>>, 0)
  /\ UNCHANGED <<now, items, queued, itemCounter, reviewed,
                 generationCounter, minValidationScore, enableGeneration, files, backups, history, calls>>

\* runCycle over entities whose analysis returns the given gaps.
RunCycle(gaps) == RunCycleStart(<<>>, gaps)

\* runCycle after the analysis: it returns when generation is disabled, it
\* returns when too many reviews are pending, and otherwise enters phase 2.
RunCycleAfterAnalyze ==
  /\ cycle.pc = "analyzed"
  /\ LET swept == expireOldItems(items, queued, now)
         pending == PendingCount(swept, queued)
     IN IF ~enableGeneration
        THEN /\ cycle' = [cycle EXCEPT !.pc = "done"]
             /\ ret' = Ret("runCycle", 0, "disabled", <<>>, 0)
             /\ UNCHANGED <<items, queued, itemCounter, generationCounter>>
        ELSE IF pending >= MaxPendingReviews
        THEN /\ items' = swept
             /\ cycle' = [cycle EXCEPT !.pc = "done"]
             /\ ret' = Ret("runCycle", 0, "paused", <<>>, pending)
             /\ UNCHANGED <<queued, itemCounter, generationCounter>>
        ELSE CycleContinue(swept, queued, cycle, 1)
  /\ UNCHANGED <<now, reviewed, minValidationScore, enableGeneration, files, backups, history, calls>>

\* runCycle after "await this.codeGenerator.generate(gap)": phase 3 validates
\* the artifact and queues it when validation passed; then the loop goes on.
RunCycleValidate ==
  /\ cycle.pc = "generated"
  /\ LET gap == GapsWithAction(cycle.gaps, ActionableActions)[cycle.next]
         validation == validate(cycle.gen.kind, cycle.gen.code)
     IN IF ValidationPassed(validation, minValidationScore)
        THEN CycleContinue(addCodeReview(items, queued, gap, cycle.gen, validation, now),
                           queued \cup {Len(items) + 1},
                           [cycle EXCEPT !.validationsPassed = @ + 1],
                           cycle.next + 1)
        ELSE CycleContinue(items, queued,
                           [cycle EXCEPT !.failed = @ \cup {cycle.next}],
                           cycle.next + 1)
  /\ UNCHANGED <<now, reviewed, minValidationScore, enableGeneration, files, backups, history, calls>>

\* A failure that leaves the try block of the gap's iteration and ends the
\* cycle: one entry in errors, no further gap, no phase 4 or 5.
RunCycleGapFailsAndAborts ==
  /\ cycle.pc = "generated"
  /\ cycle' = [cycle EXCEPT !.pc = "done", !.gen = NoGen,
                            !.errors = Append(@, cycle.next)]
  /\ ret' = Ret("runCycle", 0, "ok", <<>>, 0)
  /\ UNCHANGED <<now, items, queued, itemCounter, reviewed, generationCounter,
                 minValidationScore, enableGeneration, files, backups, history, calls>>

\* runCycle when the generate call of a gap is rejected or validate throws:
\* the catch of the gap's iteration pushes one entry to result.errors and the
\* loop goes on with the next gap.
RunCycleGapFails ==
  /\ cycle.pc = "generated"
  /\ CycleContinue(items, queued,
                   [cycle EXCEPT !.errors = Append(@, cycle.next)],
                   cycle.next + 1)
  /\ UNCHANGED <<now, reviewed, minValidationScore, enableGeneration, files, backups,
                 history, calls>>

\* The gap lists the analyses return: one misfit, a relation pattern with a
\* stratum boundary case, one critical axiom tension.
CycleGaps == {<<GapMisfit>>, <<GapRelationLow, GapBoundary>>, <<GapTensionCritical>>}

\* The engine is built with the default configuration or with a
\* minValidationScore of 0.
InitEngine ==
  /\ now = 0
  /\ items = <<>>
  /\ queued = {}
  /\ itemCounter = 0
  /\ ret = NoRet
  /\ reviewed = [i \in 1..MaxItems |-> NotReviewed]
  /\ generationCounter = 0
  /\ minValidationScore \in {MinValidationScoreDefault, 0}
  /\ enableGeneration = TRUE
  /\ files \in {[t \in Targets |-> NoFile], [t \in Targets |-> BaseFile]}
  /\ backups = NoBackups
  /\ history = <<>>
  /\ calls = <<>>
  /\ cycle = NoCycle

NextEngine ==
  \/ \E gaps \in CycleGaps : RunCycle(gaps)
  \/ RunCycleAfterAnalyze
  \/ RunCycleValidate
  \/ \E i \in 1..MaxItems : Approve(i, "alice")
  \/ \E i \in 1..MaxItems : Reject(i, "alice")
  \/ \E i \in 1..MaxItems : ModifyAndApprove(i, "alice", "EditBare")
  \/ \E i \in 1..MaxItems : IntegrateDirect(i)
  \/ \E i \in 1..MaxItems : IntegrateApproved(i)
  \/ \E c \in 1..MaxCalls : IntegrateApply(c)
  \/ \E c \in 1..MaxCalls : IntegrateRecord(c)
  \/ \E c \in 1..MaxCalls : IntegrateApprovedFinish(c)

SpecEngine == InitEngine /\ [][NextEngine]_vars

\* ------------------------------------- integrator: failures and rollback
MaxImported == 1

\* A finished integrate call that returned action 'failed'.
FailedCall(c) ==
  [DoneCall EXCEPT !.item = c.item, !.action = "failed", !.backup = c.backup]

\* An artifact built by hand rather than by the generator, with the replace
\* insertion strategy.
HandWritten(n) ==
  [id |-> 10 + n, kind |-> "domain", code |-> "EditComplete",
   target |-> TargetOf("domain"), insertion |-> "replace"]

\* addCodeReview(gap, generated, validation) for a hand-written artifact.
AddHandWrittenReview(gap) ==
  /\ itemCounter < MaxItems
  /\ LET gen == HandWritten(itemCounter + 1)
     IN items' = addCodeReview(items, queued, gap, gen, validate(gen.kind, gen.code), now)
  /\ itemCounter' = itemCounter + 1
  /\ queued' = queued \cup {itemCounter + 1}
  /\ ret' = Ret("add", itemCounter + 1, "ok", <<>>, 0)
  /\ UNCHANGED <<now, reviewed, engineVars>>

IntegrateFailsAfterRecord(c) ==
  /\ c \in 1..Len(calls)
  /\ calls[c].pc = "apply"
  /\ calls' = [calls EXCEPT ![c] = IF calls[c].via = "direct"
                                   THEN FailedCall(calls[c])
                                   ELSE [calls[c] EXCEPT !.pc = "failed", !.action = "failed"]]
  /\ history' = Append(history, HistoryEntry(calls[c], now))
  /\ ret' = Ret("integrate", calls[c].item, "failed", <<>>, 0)
  /\ UNCHANGED <<now, items, queued, itemCounter, reviewed,
                 generationCounter, minValidationScore, enableGeneration, files, backups, cycle>>

\* integrate after "await this.createBackup" when applyCode throws (the read
\* or the write of the target fails): the catch returns action 'failed'.
IntegrateApplyFails(c) ==
  /\ c \in 1..Len(calls)
  /\ calls[c].pc = "apply"
  /\ calls' = [calls EXCEPT ![c] = IF calls[c].via = "direct"
                                   THEN FailedCall(calls[c])
                                   ELSE [calls[c] EXCEPT !.pc = "failed", !.action = "failed"]]
  /\ ret' = Ret("integrate", calls[c].item, "failed", <<>>, 0)
  /\ UNCHANGED <<now, items, queued, itemCounter, reviewed,
                 generationCounter, minValidationScore, enableGeneration, files, backups, history, cycle>>

IntegrateApprovedAlwaysMarks(c) ==
  /\ c \in 1..Len(calls)
  /\ calls[c].pc = "failed"
  /\ calls[c].via = "approved"
  /\ calls' = [calls EXCEPT ![c] = FailedCall(calls[c])]
  /\ queued' = queued \ {calls[c].item}
  /\ ret' = Ret("integrateApproved", calls[c].item, "failed", <<>>, 0)
  /\ UNCHANGED <<now, items, itemCounter, reviewed,
                 generationCounter, minValidationScore, enableGeneration, files, backups, history, cycle>>

\* integrateApproved after its await when the result is not a success: the
\* item is not marked integrated.
IntegrateApprovedFailed(c) ==
  /\ c \in 1..Len(calls)
  /\ calls[c].pc = "failed"
  /\ calls[c].via = "approved"
  /\ calls' = [calls EXCEPT ![c] = FailedCall(calls[c])]
  /\ ret' = Ret("integrateApproved", calls[c].item, "failed", <<>>, 0)
  /\ UNCHANGED <<now, items, queued, itemCounter, reviewed,
                 generationCounter, minValidationScore, enableGeneration, files, backups, history, cycle>>

\* getApprovedForIntegration
ApprovedForIntegration(its, qd) ==
  LET Ready(i) == its[i].status \in {"approved", "modified"} /\ its[i].gen # NoGen
  IN SelectSeq(Values(qd), Ready)

\* integrateAllApproved up to its first await: the approved items are listed
\* and integrate is called for the first.
IntegrateAllApproved ==
  /\ Len(calls) < MaxCalls
  /\ LET approved == ApprovedForIntegration(items, queued)
     IN IF approved = <<>>
        THEN /\ ret' = Ret("integrateAllApproved", 0, "ok", <<>>, 0)
             /\ UNCHANGED <<files, backups, calls>>
        ELSE LET begun == integrateBegin(Head(approved), "all", Tail(approved))
             IN /\ files' = begun.files
                /\ backups' = begun.backups
                /\ calls' = calls \o begun.started
                /\ ret' = Ret("integrate", Head(approved), begun.outcome, <<>>, 0)
  /\ UNCHANGED <<now, items, queued, itemCounter, reviewed,
                 generationCounter, minValidationScore, enableGeneration, history, cycle>>

\* integrateAllApproved after an await: the item is marked integrated when
\* the result is a success, and integrate is called for the next item.
IntegrateAllNext(c) ==
  /\ c \in 1..Len(calls)
  /\ calls[c].via = "all"
  /\ calls[c].pc \in {"returned", "failed"}
  /\ queued' = IF calls[c].pc = "returned" THEN queued \ {calls[c].item} ELSE queued
  /\ LET finished == IF calls[c].pc = "returned" THEN DoneCall ELSE FailedCall(calls[c])
         rest == calls[c].rest
     IN IF rest = <<>>
        THEN /\ calls' = [calls EXCEPT ![c] = finished]
             /\ ret' = Ret("integrateAllApproved", 0, "ok", <<>>, 0)
             /\ UNCHANGED <<files, backups>>
        ELSE LET begun == integrateBegin(Head(rest), "all", Tail(rest))
             IN /\ files' = begun.files
                /\ backups' = begun.backups
                /\ calls' = [calls EXCEPT ![c] = finished] \o begun.started
                /\ ret' = Ret("integrate", Head(rest), begun.outcome, <<>>, 0)
  /\ UNCHANGED <<now, items, itemCounter, reviewed,
                 generationCounter, minValidationScore, enableGeneration, history, cycle>>

\* this.history.find(h => h.id === integrationId): the first position, 0
\* when there is none.
FindEntry(h, id) ==
  IF \E k \in 1..Len(h) : h[k].id = id
  THEN CHOOSE k \in 1..Len(h) : h[k].id = id /\ \A l \in 1..(k - 1) : h[l].id # id
  ELSE 0

HasBackup(entry) == entry.backupPath # NoPath

\* The test rollback makes before it restores anything.
IsRollbackable(entry) == entry.canRollback /\ entry.backupPath # NoPath

KeepFile(fs, bk, entry) == fs

\* fs.copyFileSync(entry.backupPath, targetPath)
restoreBackup(fs, bk, entry) ==
  [fs EXCEPT ![entry.targetFile] = [exists |-> TRUE, content |-> bk[entry.backupPath]]]

\* rollback(integrationId).  A backup file that is missing makes the copy
\* throw before the entry is touched.
Rollback(id) ==
  /\ LET k == FindEntry(history, id)
     IN IF k = 0
        THEN /\ ret' = Ret("rollback", id, "not_found", <<>>, 0)
             /\ UNCHANGED <<files, history>>
        ELSE IF ~IsRollbackable(history[k])
        THEN /\ ret' = Ret("rollback", id, "not_rollbackable", <<>>, 0)
             /\ UNCHANGED <<files, history>>
        ELSE IF history[k].backupPath \notin DOMAIN backups
        THEN /\ ret' = Ret("rollback", id, "failed", <<>>, 0)
             /\ UNCHANGED <<files, history>>
        ELSE /\ files' = restoreBackup(files, backups, history[k])
             /\ history' = [history EXCEPT ![k].canRollback = FALSE]
             /\ ret' = Ret("rollback", id, "ok", <<>>, 0)
  /\ UNCHANGED <<now, items, queued, itemCounter, reviewed,
                 generationCounter, minValidationScore, enableGeneration, backups, calls, cycle>>

\* An entry of a history exported by an earlier session, rolled back there.
ImportedEntry ==
  [id |-> -1, reviewItemId |-> 0, generatedCodeId |-> 0, kind |-> "domain",
   targetFile |-> TargetOf("domain"), integratedBy |-> "system",
   canRollback |-> FALSE, backupPath |-> BackupPath(TargetOf("domain"), -1, 0),
   via |-> "imported", action |-> "modified", atCall |-> NoFile,
   before |-> <<>>, applied |-> "GenDomain"]

Imported(h) == {k \in 1..Len(h) : h[k].via = "imported"}

\* importHistory(entries)
ImportHistory(entries) ==
  /\ Cardinality(Imported(history)) + Len(entries) <= MaxImported
  /\ history' = history \o entries
  /\ ret' = Ret("importHistory", 0, "ok", <<>>, 0)
  /\ UNCHANGED <<now, items, queued, itemCounter, reviewed,
                 generationCounter, minValidationScore, enableGeneration, files, backups, calls, cycle>>

\* An engine whose target files all exist or are all missing.
InitIntegrator ==
  /\ now = 0
  /\ items = <<>>
  /\ queued = {}
  /\ itemCounter = 0
  /\ ret = NoRet
  /\ reviewed = [i \in 1..MaxItems |-> NotReviewed]
  /\ generationCounter = 0
  /\ minValidationScore = MinValidationScoreDefault
  /\ enableGeneration = TRUE
  /\ files \in {[t \in Targets |-> NoFile], [t \in Targets |-> BaseFile]}
  /\ backups = NoBackups
  /\ history = <<>>
  /\ calls = <<>>
  /\ cycle = NoCycle

\* The review calls and integrateApproved calls that are not refused.
ApprovePending(i) == i \in queued /\ items[i].status = "pending" /\ Approve(i, "alice")

IntegrateApprovedItem(i) ==
  i \in queued /\ items[i].status \in {"approved", "modified"} /\ IntegrateApproved(i)

\* Integrations of generated and hand-written artifacts and of items without
\* an artifact, with failing writes and an imported history.
NextIntegrator ==
  \/ AddCodeReview(GapMisfit)
  \/ AddHandWrittenReview(GapMisfit)
  \/ AddGapReview(GapBoundary)
  \/ \E i \in 1..MaxItems : ApprovePending(i)
  \/ \E i \in 1..MaxItems : IntegrateApprovedItem(i)
  \/ IntegrateAllApproved
  \/ \E c \in 1..(MaxCalls + MaxItems) : IntegrateApply(c)
  \/ \E c \in 1..(MaxCalls + MaxItems) : IntegrateApplyFails(c)
  \/ \E c \in 1..(MaxCalls + MaxItems) : IntegrateRecord(c)
  \/ \E c \in 1..(MaxCalls + MaxItems) : IntegrateApprovedFinish(c)
  \/ \E c \in 1..(MaxCalls + MaxItems) : IntegrateApprovedFailed(c)
  \/ \E c \in 1..(MaxCalls + MaxItems) : IntegrateAllNext(c)
  \/ ImportHistory(<<ImportedEntry>>)

SpecIntegrator == InitIntegrator /\ [][NextIntegrator]_vars

RejectPending(i) == i \in queued /\ items[i].status = "pending" /\ Reject(i, "alice")

\* integrateAllApproved called when no integration is in flight.
NoCallInFlight == \A c \in 1..Len(calls) : calls[c].pc = "done"

IntegrateAllApprovedAwaited == NoCallInFlight /\ IntegrateAllApproved

\* The life of review items: cycles that queue them, reviews, listings with
\* their expiry sweep, and integrations that succeed or fail.
NextLifecycle ==
  \/ \E gaps \in {<<GapMisfit>>, <<GapBoundary>>} : RunCycle(gaps)
  \/ RunCycleAfterAnalyze
  \/ RunCycleValidate
  \/ \E i \in 1..MaxItems : ApprovePending(i)
  \/ \E i \in 1..MaxItems : RejectPending(i)
  \/ ListPending
  \/ \E i \in 1..MaxItems : IntegrateApprovedItem(i)
  \/ IntegrateAllApprovedAwaited
  \/ \E c \in 1..(MaxCalls + MaxItems) : IntegrateApply(c)
  \/ \E c \in 1..(MaxCalls + MaxItems) : IntegrateApplyFails(c)
  \/ \E c \in 1..(MaxCalls + MaxItems) : IntegrateRecord(c)
  \/ \E c \in 1..(MaxCalls + MaxItems) : IntegrateApprovedFinish(c)
  \/ \E c \in 1..(MaxCalls + MaxItems) : IntegrateApprovedFailed(c)
  \/ \E c \in 1..(MaxCalls + MaxItems) : IntegrateAllNext(c)
  \/ Tick

\* An engine that accepts every generated artifact, over existing targets.
InitLifecycle ==
  /\ InitEngine
  /\ minValidationScore = 0
  /\ enableGeneration = TRUE
  /\ files = [t \in Targets |-> BaseFile]

SpecLifecycle == InitLifecycle /\ [][NextLifecycle]_vars

\* Integrations and rollbacks of generated artifacts while the clock runs.
NextRollback ==
  \/ AddCodeReview(GapMisfit)
  \/ \E i \in 1..MaxItems : ApprovePending(i)
  \/ \E i \in 1..MaxItems : IntegrateApprovedItem(i)
  \/ \E c \in 1..MaxCalls : IntegrateApply(c)
  \/ \E c \in 1..MaxCalls : IntegrateRecord(c)
  \/ \E c \in 1..MaxCalls : IntegrateApprovedFinish(c)
  \/ \E id \in 0..MaxTime : Rollback(id)
  \/ Tick

SpecRollback == InitIntegrator /\ [][NextRollback]_vars

\* ------------------------------------------------------------ persistence
MaxHistory == 2

\* ReviewQueue.export(): the queued items, in the order of the map.
ExportQueue(its, qd) ==
  LET ids == SetToSeq(qd)
  IN [k \in 1..Len(ids) |-> [id |-> ids[k], item |-> its[ids[k]]]]

ExportedIds(exported) == {exported[k].id : k \in 1..Len(exported)}

\* ReviewQueue.import(items): items.set(item.id, item) for each.
ImportQueueItems(its, exported) ==
  [i \in 1..Len(its) |->
     IF i \in ExportedIds(exported)
     THEN (CHOOSE e \in Range(exported) : e.id = i).item
     ELSE its[i]]

Importing == ret.op = "importState" /\ ret.outcome = "running"

\* exportState(): the queue's items and the integrator's history array
\* itself.
ExportState ==
  /\ ret' = Ret("exportState", 0, "ok", <<ExportQueue(items, queued), history>>, 0)
  /\ UNCHANGED <<now, items, queued, itemCounter, reviewed, engineVars>>

\* importState(snapshot) on the engine that exported it, with a snapshot that
\* was written out and parsed again: importHistory pushes every entry.
ImportStateParsed ==
  /\ ret.op = "exportState"
  /\ Len(history) + Len(ret.list[2]) <= MaxHistory
  /\ items' = ImportQueueItems(items, ret.list[1])
  /\ queued' = queued \cup ExportedIds(ret.list[1])
  /\ history' = history \o ret.list[2]
  /\ ret' = Ret("importState", 0, "ok", ret.list, 0)
  /\ UNCHANGED <<now, itemCounter, reviewed,
                 generationCounter, minValidationScore, enableGeneration, files, backups, calls, cycle>>

\* importState(exportState()) on one engine: integrationHistory is
\* this.history, so the loop of importHistory iterates over the array it
\* pushes to. It ends at once on an empty history.
ImportStateSameObject ==
  /\ ret.op = "exportState"
  /\ items' = ImportQueueItems(items, ret.list[1])
  /\ queued' = queued \cup ExportedIds(ret.list[1])
  /\ ret' = Ret("importState", 0, IF history = <<>> THEN "ok" ELSE "running", ret.list, 1)
  /\ UNCHANGED <<now, itemCounter, reviewed, engineVars>>

\* One iteration of that loop: the entry read is pushed, and the array read
\* is one longer.
ImportHistoryLoop ==
  /\ Importing
  /\ ret.pending <= Len(history)
  /\ Len(history) < MaxHistory
  /\ history' = Append(history, history[ret.pending])
  /\ ret' = [ret EXCEPT !.pending = @ + 1, !.list = <<ret.list[1], history'>>]
  /\ UNCHANGED <<now, items, queued, itemCounter, reviewed,
                 generationCounter, minValidationScore, enableGeneration, files, backups, calls, cycle>>

\* The process is restarted while no integration is in flight, and
\* importState is called on the new engine with the parsed snapshot: the
\* queue and the history hold what was exported, the files stay.
ImportStateFresh ==
  /\ ret.op = "exportState"
  /\ NoCallInFlight
  /\ items' = ImportQueueItems(items, ret.list[1])
  /\ queued' = ExportedIds(ret.list[1])
  /\ itemCounter' = 0
  /\ generationCounter' = 0
  /\ history' = ret.list[2]
  /\ calls' = <<>>
  /\ cycle' = NoCycle
  /\ ret' = Ret("importState", 1, "ok", ret.list, 0)
  /\ UNCHANGED <<now, reviewed, minValidationScore, enableGeneration, files, backups>>

\* New items are followed for the engine that numbered all the items so far.
AddCodeReviewCounted == itemCounter = Len(items) /\ AddCodeReview(GapMisfit)

\* A synchronous importState that is running keeps every other call from
\* running.
WhileResponsive(Step) == ~Importing /\ Step

\* Integrations, and exports followed by an import.
NextPersist ==
  \/ WhileResponsive(AddCodeReviewCounted)
  \/ \E i \in 1..MaxItems : WhileResponsive(ApprovePending(i))
  \/ \E i \in 1..MaxItems : WhileResponsive(IntegrateApprovedItem(i))
  \/ \E c \in 1..MaxCalls : WhileResponsive(IntegrateApply(c))
  \/ \E c \in 1..MaxCalls : WhileResponsive(IntegrateRecord(c))
  \/ \E c \in 1..MaxCalls : WhileResponsive(IntegrateApprovedFinish(c))
  \/ WhileResponsive(ExportState)
  \/ ImportStateParsed
  \/ ImportStateSameObject
  \/ ImportStateFresh
  \/ ImportHistoryLoop

SpecPersist == InitIntegrator /\ [][NextPersist]_vars

FairSpecPersist == SpecPersist /\ WF_vars(ImportHistoryLoop)

\* ------------------------------------------------------------ gap analyzer
MaxEntities == 2

\* Closure and scope are counted in hundredths.
HighClosureScope == 80
BoundaryMediumSize == 5

\* The strata, lowest first.
order == <<"MATTER", "LIFE", "SENTIENCE", "LOGOS">>

\* The entities analysed: an exempt and a non-exempt domain, closure and
\* scope on either side of the threshold, every combination of strata.
EntityDomains == {"ARTIFICIAL", "IDEAL"}
EntityClosures == {50, 85}
EntityScopes == {75, 85}

Entity(id, domain, closure, scope, strata) ==
  [id |-> id, domain |-> domain, closure |-> closure, scope |-> scope, strata |-> strata]

EntityLists ==
  UNION {[1..n -> [domain : EntityDomains, closure : EntityClosures,
                   scope : EntityScopes, strata : SUBSET Range(order)]]
         : n \in 1..MaxEntities}

\* The list with each entity's id set to its position.
WithIds(shapes) ==
  [k \in 1..Len(shapes) |->
     Entity(k, shapes[k].domain, shapes[k].closure, shapes[k].scope, shapes[k].strata)]

\* getActiveStrata: the strata whose flag is true, lowest first.
getActiveStrata(entity) ==
  LET Active(s) == s \in entity.strata
  IN SelectSeq(order, Active)

hasUnusualStratumCombination(strata) ==
  LET strataSet == Range(strata)
  IN \/ "LOGOS" \in strataSet /\ "SENTIENCE" \notin strataSet
     \/ "SENTIENCE" \in strataSet /\ "LIFE" \notin strataSet
     \/ "LIFE" \in strataSet /\ "MATTER" \notin strataSet

\* The loop of respectsStratalNesting from the k-th stratum on.
RECURSIVE NestingFrom(_, _, _, _)
NestingFrom(k, strataSet, foundGap, sawHigher) ==
  IF k > Len(order) THEN TRUE
  ELSE IF order[k] \in strataSet
       THEN IF foundGap THEN FALSE ELSE NestingFrom(k + 1, strataSet, foundGap, TRUE)
       ELSE NestingFrom(k + 1, strataSet, foundGap \/ sawHigher, sawHigher)

respectsStratalNesting(strata) == NestingFrom(1, Range(strata), FALSE, FALSE)

\* A gap as analyze emits it; entity is the entity of its evidence, 0 when
\* the evidence names several.
EntityGap(type, severity, action, entity) ==
  [type |-> type, severity |-> severity, action |-> action, entity |-> entity]

analyzeStratumBoundaries(entities) ==
  LET Unusual(e) == hasUnusualStratumCombination(getActiveStrata(e))
      boundaryEntities == SelectSeq(entities, Unusual)
  IN IF Len(boundaryEntities) > 0
     THEN <<EntityGap("stratum_boundary",
                      IF Len(boundaryEntities) >= BoundaryMediumSize THEN "medium" ELSE "low",
                      "manual_review", 0)>>
     ELSE <<>>

\* The body of the loop of analyzeAxiomTensions for one entity: an entity of
\* the IDEAL domain ends the iteration at once.
tensionsOf(entity) ==
  IF entity.domain = "IDEAL" THEN <<>>
  ELSE (IF entity.closure > HighClosureScope /\ entity.scope > HighClosureScope
        THEN <<EntityGap("axiom_tension", "low", "manual_review", entity.id)>>
        ELSE <<>>)
       \o (IF ~respectsStratalNesting(getActiveStrata(entity))
           THEN <<EntityGap("axiom_tension", "critical", "axiom_review", entity.id)>>
           ELSE <<>>)

RECURSIVE analyzeAxiomTensions(_)
analyzeAxiomTensions(entities) ==
  IF entities = <<>> THEN <<>>
  ELSE tensionsOf(Head(entities)) \o analyzeAxiomTensions(Tail(entities))

\* ---------------------------------------------- gap analyzer: clustering
gridSize == 25
ClusterMinSize == 3
AnomalyMinSize == 5
AnomalyHighSize == 8
domainMisfitThreshold == 40

\* domainCharacteristics: typical closure and scope of a domain, in
\* hundredths.
KnownDomains ==
  {"INERT", "LIVING", "SENTIENT", "SYMBOLIC", "COLLECTIVE", "IDEAL", "EPHEMERAL",
   "ARTIFICIAL"}

typicalClosure(domain) ==
  CASE domain = "INERT" -> 30 [] domain = "LIVING" -> 70 [] domain = "SENTIENT" -> 80
    [] domain = "SYMBOLIC" -> 50 [] domain = "COLLECTIVE" -> 60 [] domain = "IDEAL" -> 20
    [] domain = "EPHEMERAL" -> 40 [] domain = "ARTIFICIAL" -> 50

typicalScope(domain) ==
  CASE domain = "INERT" -> 20 [] domain = "LIVING" -> 40 [] domain = "SENTIENT" -> 50
    [] domain = "SYMBOLIC" -> 70 [] domain = "COLLECTIVE" -> 80 [] domain = "IDEAL" -> 90
    [] domain = "EPHEMERAL" -> 30 [] domain = "ARTIFICIAL" -> 60

Abs(n) == IF n < 0 THEN -n ELSE n

\* calculateDomainFitScore, in two-hundredths so that the halving is exact:
\* 1 - (closureDiff + scopeDiff) / 2, and 0.5 for a domain without entry.
calculateDomainFitScore(entity) ==
  IF entity.domain \notin KnownDomains
  THEN 100
  ELSE 200 - (Abs(entity.closure - typicalClosure(entity.domain))
              + Abs(entity.scope - typicalScope(entity.domain)))

\* The key of the grid cell of an entity: floor(closure / gridSize) and
\* floor(scope / gridSize).
CellOf(entity) == <<entity.closure \div gridSize, entity.scope \div gridSize>>

\* clusterByClosureScope: the cells in the order in which the grid map got
\* them, each with its entities in list order, for the cells of at least
\* three entities.
clusterByClosureScope(entities) ==
  LET First(e) == \A k \in 1..(e.id - 1) : CellOf(entities[k]) # CellOf(e)
      firsts == SelectSeq(entities, First)
      Members(key) == LET InCell(e) == CellOf(e) = key IN SelectSeq(entities, InCell)
      grid == [k \in 1..Len(firsts) |-> Members(CellOf(firsts[k]))]
      Big(ents) == Len(ents) >= ClusterMinSize
  IN SelectSeq(grid, Big)

DomainsOf(ents) == {ents[k].domain : k \in 1..Len(ents)}

\* A gap for every cluster that spans more than two domains, whatever its
\* size.
analyzeEveryMixedCluster(entities) ==
  LET clusters == clusterByClosureScope(entities)
      Anomalous(ents) == Cardinality(DomainsOf(ents)) > 2
      found == SelectSeq(clusters, Anomalous)
  IN [k \in 1..Len(found) |->
        EntityGap("clustering_anomaly", "medium", "manual_review", found[k][1].id)]

\* analyzeClusteringAnomalies: a gap for each cluster that spans more than
\* two domains and has at least five entities; the gap's first evidence is
\* the cluster's first entity.
analyzeClusteringAnomalies(entities) ==
  LET clusters == clusterByClosureScope(entities)
      Anomalous(ents) == Cardinality(DomainsOf(ents)) > 2 /\ Len(ents) >= AnomalyMinSize
      found == SelectSeq(clusters, Anomalous)
  IN [k \in 1..Len(found) |->
        EntityGap("clustering_anomaly",
                  IF Len(found[k]) >= AnomalyHighSize THEN "high" ELSE "medium",
                  IF Len(found[k]) >= AnomalyHighSize THEN "new_domain" ELSE "manual_review",
                  found[k][1].id)]

\* analyze(entities) for entities that fit their domain and have no
\* relations, so that the misfit, capability and relation analyses find
\* nothing: the stratum boundaries, the clustering anomalies, then the axiom
\* tensions.
analyze(entities) ==
  analyzeStratumBoundaries(entities)
    \o analyzeClusteringAnomalies(entities)
    \o analyzeAxiomTensions(entities)

\* GapAnalyzer.analyze called on the entities: the result is kept as the
\* last analysis.
Analyze ==
  /\ cycle.pc = "idle"
  /\ cycle' = [cycle EXCEPT !.pc = "done", !.gaps = analyze(cycle.entities)]
  /\ ret' = Ret("analyze", 0, "ok", <<>>, 0)
  /\ UNCHANGED <<now, items, queued, itemCounter, reviewed,
                 generationCounter, minValidationScore, enableGeneration, files, backups, history, calls>>

\* runCycle(entities) up to its first await.
RunCycleOn == RunCycleStart(cycle.entities, analyze(cycle.entities))

\* CodeGenerator.generate(gap) called on its own: the result is null or an
\* artifact.
GenerateFor(gap) ==
  /\ generationCounter < MaxGenerated
  /\ LET generated == Generate(gap, generationCounter + 1)
     IN /\ generationCounter' = IF generated = NoGen THEN generationCounter
                                ELSE generationCounter + 1
        /\ ret' = Ret("generate", generated.id,
                      IF generated = NoGen THEN "null" ELSE "generated", <<gap>>, 0)
  /\ UNCHANGED <<now, items, queued, itemCounter, reviewed,
                 minValidationScore, enableGeneration, files, backups, history, calls, cycle>>

\* An engine that accepts every generated artifact, and the entities its
\* analyses and cycles are given.
InitAnalyzer ==
  /\ now = 0
  /\ items = <<>>
  /\ queued = {}
  /\ itemCounter = 0
  /\ ret = NoRet
  /\ reviewed = [i \in 1..MaxItems |-> NotReviewed]
  /\ generationCounter = 0
  /\ minValidationScore = 0
  /\ enableGeneration = TRUE
  /\ files = [t \in Targets |-> NoFile]
  /\ backups = NoBackups
  /\ history = <<>>
  /\ calls = <<>>
  /\ \E shapes \in EntityLists : cycle = [NoCycle EXCEPT !.entities = WithIds(shapes)]

\* The entity lists of the clustering analysis: three domains, two grid
\* cells, strata that raise no other gap.
MaxClusterEntities == 5

ClusterLists ==
  UNION {[1..n -> [domain : {"ARTIFICIAL", "IDEAL", "LIVING"}, closure : {50, 85},
                   scope : {60}, strata : {{"MATTER"}}]]
         : n \in 1..MaxClusterEntities}

InitCluster ==
  /\ now = 0
  /\ items = <<>>
  /\ queued = {}
  /\ itemCounter = 0
  /\ ret = NoRet
  /\ reviewed = [i \in 1..MaxItems |-> NotReviewed]
  /\ generationCounter = 0
  /\ minValidationScore = 0
  /\ enableGeneration = TRUE
  /\ files = [t \in Targets |-> NoFile]
  /\ backups = NoBackups
  /\ history = <<>>
  /\ calls = <<>>
  /\ \E shapes \in ClusterLists :
       /\ cycle = [NoCycle EXCEPT !.entities = WithIds(shapes)]
       /\ \A k \in 1..Len(shapes) :
            calculateDomainFitScore(shapes[k]) >= 2 * domainMisfitThreshold

\* Analyses and cycles over the entities of the clustering analysis.
NextCluster ==
  \/ Analyze
  \/ RunCycleOn
  \/ RunCycleAfterAnalyze

SpecCluster == InitCluster /\ [][NextCluster]_vars

\* Analyses and cycles over the entities.
NextAnalyzer ==
  \/ Analyze
  \/ RunCycleOn
  \/ RunCycleAfterAnalyze

SpecAnalyzer == InitAnalyzer /\ [][NextAnalyzer]_vars

\* The engine of InitAnalyzer with a single entity.
InitGenerator ==
  /\ InitAnalyzer
  /\ Len(cycle.entities) = 1

\* Analyses and cycles over one entity, cycles over a misfit cluster found
\* together with a closure-scope tension, and generate called for every kind
\* of gap.
NextGenerator ==
  \/ Analyze
  \/ RunCycleOn
  \/ RunCycle(<<GapMisfit, GapTensionLow>>)
  \/ RunCycleAfterAnalyze
  \/ RunCycleValidate
  \/ \E gap \in GapProfiles : GenerateFor(gap)

SpecGenerator == InitGenerator /\ [][NextGenerator]_vars

\* ------------------------------------------------- validator on its own
ArtifactKinds == {"domain", "capability", "relation", "connector"}

\* AxisValidator.validate(generated) called on its own: the artifact and the
\* result are kept as what the call returned.
ValidateArtifact(kind, code) ==
  /\ LET validation == validate(kind, code)
     IN ret' = Ret("validate", 0, IF validation.valid THEN "valid" ELSE "invalid",
                   <<[kind |-> kind, code |-> code], validation>>, 0)
  /\ UNCHANGED <<now, items, queued, itemCounter, reviewed, engineVars>>

\* The generator and the validator called on their own.
NextValidator ==
  \/ \E kind \in ArtifactKinds, code \in ArtifactTexts : ValidateArtifact(kind, code)
  \/ \E gap \in GapProfiles : GenerateFor(gap)

SpecValidator == InitEngine /\ [][NextValidator]_vars

\* ------------------------------------------------------- cycles that fail
\* An engine built with generation enabled or disabled.
InitCycle ==
  /\ now = 0
  /\ items = <<>>
  /\ queued = {}
  /\ itemCounter = 0
  /\ ret = NoRet
  /\ reviewed = [i \in 1..MaxItems |-> NotReviewed]
  /\ generationCounter = 0
  /\ minValidationScore \in {MinValidationScoreDefault, 0}
  /\ enableGeneration \in BOOLEAN
  /\ files = [t \in Targets |-> NoFile]
  /\ backups = NoBackups
  /\ history = <<>>
  /\ calls = <<>>
  /\ cycle = NoCycle

\* The gap lists of these cycles: two gaps with an artifact; an artifact and
\* a gap for manual review; a critical axiom tension; a boundary case.
FailingCycleGaps ==
  {<<GapMisfit, GapRelationLow>>, <<GapRelationLow, GapBoundary>>, <<GapTensionCritical>>,
   <<GapBoundary>>}

\* Cycles in which generation or validation can fail for any gap, the
\* validator called on what the generator builds for each kind, and reviews
\* and passing time between them.
NextCycle ==
  \/ \E gaps \in FailingCycleGaps : RunCycle(gaps)
  \/ RunCycleAfterAnalyze
  \/ RunCycleValidate
  \/ RunCycleGapFails
  \/ \E kind \in ArtifactKinds : ValidateArtifact(kind, TextOf(kind))
  \/ \E i \in 1..MaxItems : ApprovePending(i)
  \/ Tick

SpecCycle == InitCycle /\ [][NextCycle]_vars

\* =================================================== claims: review queue
TerminalStatuses == {"approved", "rejected", "modified", "expired"}

\* C1: once an item's status is approved, rejected, modified or expired, no
\* operation of the review queue changes it again; in particular no item
\* returns to pending.
C1_TerminalStatusIsFinal ==
  [][\A i \in 1..Len(items) :
       items[i].status \in TerminalStatuses => items'[i].status = items[i].status]_vars

\* An expired item and a reviewed item, just after a review call on a
\* terminal item was refused.
C1_Witness ==
  /\ \E i \in 1..Len(items) : items[i].status = "expired"
  /\ \E i \in 1..Len(items) : items[i].status \in {"approved", "rejected", "modified"}
  /\ ret.op \in ReviewOps /\ ret.outcome = "not_pending"

\* C2: approve, reject and modifyAndApprove on a queued item that is not
\* pending throw, and leave every item, the queue and the counters as they
\* were.
C2_NonPendingReviewMutatesNothing ==
  [][\A i \in queued :
       (ret'.op \in ReviewOps /\ ret'.id = i /\ ret' # ret /\ items[i].status # "pending")
         => /\ ret'.outcome = "not_pending"
            /\ items' = items
            /\ queued' = queued
            /\ itemCounter' = itemCounter
            /\ reviewed' = reviewed]_vars

\* modifyAndApprove was refused on a rejected item that carries an artifact,
\* whose code is still the generated one.
C2_Witness ==
  /\ ret.op = "modifyAndApprove" /\ ret.outcome = "not_pending"
  /\ ret.id \in queued
  /\ items[ret.id].status = "rejected"
  /\ items[ret.id].gen # NoGen /\ items[ret.id].gen.code \in GeneratedTexts

\* C6: of the approve, reject and modifyAndApprove calls made on one item,
\* in any order, at most one succeeds, exactly one unless the item expired
\* first, and the item keeps the status, reviewer and feedback the
\* successful call set.
C6_OneReviewWins ==
  \A i \in 1..Len(items) :
    /\ reviewed[i].wins <= 1
    /\ reviewed[i].wins = 1 <=> items[i].status \in {"approved", "rejected", "modified"}
    /\ reviewed[i].wins = 1 =>
         /\ items[i].status = StatusAfter(reviewed[i].winner.op)
         /\ items[i].reviewer = reviewed[i].winner.reviewer
         /\ items[i].feedback = [decision |-> DecisionOf(reviewed[i].winner.op),
                                 modifications |-> reviewed[i].winner.modifications]
    /\ (ret.op \in ReviewOps /\ ret.id = i /\ items[i].status # "expired")
         => reviewed[i].wins = 1

\* A second call, of another kind, was refused on an item a first call won.
C6_Witness ==
  \E i \in 1..Len(items) :
    /\ reviewed[i].wins = 1
    /\ ret.op \in ReviewOps /\ ret.id = i /\ ret.outcome = "not_pending"
    /\ ret.op # reviewed[i].winner.op

\* C8: listPending returns exactly the pending items, each once, ordered by
\* priority critical, high, medium, low and, within a priority, oldest first.
C8_ListPendingOrdered ==
  ret.op = "listPending" =>
    /\ {ret.list[k].id : k \in 1..Len(ret.list)} =
         {i \in queued : items[i].status = "pending"}
    /\ \A k, l \in 1..Len(ret.list) :
         k < l =>
           /\ ret.list[k].id # ret.list[l].id
           /\ priorityOrder(ret.list[k].priority) <= priorityOrder(ret.list[l].priority)
           /\ ret.list[k].priority = ret.list[l].priority
                => ret.list[k].createdAt <= ret.list[l].createdAt

\* A listing of two items of one priority created at different times.
C8_Witness ==
  /\ ret.op = "listPending"
  /\ Len(ret.list) >= 2
  /\ ret.list[1].priority = ret.list[2].priority
  /\ ret.list[1].createdAt < ret.list[2].createdAt

\* A listing of two items of different priorities, the younger first.
C8_WitnessPriority ==
  /\ ret.op = "listPending"
  /\ Len(ret.list) >= 2
  /\ ret.list[1].priority # ret.list[2].priority
  /\ ret.list[1].createdAt > ret.list[2].createdAt

\* The capacity policy on one step that adds an item: with k the excess of
\* the pending items (the new one included, overdue ones excluded) over
\* maxPending and at least k of them of low priority, exactly the k oldest
\* low-priority ones are expired, they stay queued, and maxPending remain.
CapacityPolicyApplied ==
  LET swept == expireOldItems(items, queued, now)
      new == itemCounter + 1
      P == {i \in queued : swept[i].status = "pending"} \cup {new}
      k == Cardinality(P) - MaxPending
      L == {i \in P : items'[i].priority = "low"}
      E == {i \in P : items'[i].status = "expired"}
  IN (k > 0 /\ Cardinality(L) >= k) =>
       /\ Cardinality(E) = k
       /\ E \subseteq L
       /\ \A e \in E, l \in L \ E : items'[e].createdAt <= items'[l].createdAt
       /\ E \subseteq queued'
       /\ Cardinality({i \in queued' : items'[i].status = "pending"}) = MaxPending

\* C9: the capacity policy is applied whenever an item is added, by any of
\* addCodeReview, addGapReview and addAxiomReview.
C9_CapacityPolicyOnEveryAdd ==
  [][itemCounter' = itemCounter + 1 => CapacityPolicyApplied]_vars

\* C9, for the two entry paths that call enforceMaxPending.
C9_CapacityPolicyOnCodeAndGapAdd ==
  [][(itemCounter' = itemCounter + 1 /\ items'[itemCounter + 1].type # "axiom_tension")
       => CapacityPolicyApplied]_vars

ListingOps == {"listPending", "getStats", "listAll", "getByType", "export"}

NoStalePending ==
  /\ \A k \in 1..Len(ret.list) :
       ~(ret.list[k].status = "pending" /\ ret.list[k].expiresAt < now)
  /\ ret.op = "getStats" =>
       ret.pending = Cardinality({i \in queued : items[i].status = "pending"
                                                   /\ ~(items[i].expiresAt < now)})

\* C10: no listing or statistics operation (listPending, getStats, listAll,
\* getByType, export) returns, or counts as pending, an item whose deadline
\* has passed.
C10_SweepBeforeEveryListing ==
  ret.op \in ListingOps => NoStalePending

\* C10, for the two operations that call expireOldItems.
C10_SweepBeforeListPendingAndStats ==
  ret.op \in {"listPending", "getStats"} => NoStalePending

\* ================================================== claims: integration
ApprovedStatuses == {"approved", "modified"}

\* C3: every integration record, and every integrate call that has taken a
\* backup or written its target, belongs to a review item whose status is
\* approved or modified: integrate on any other item writes nothing, backs
\* up nothing and records nothing.
C3_IntegrationRequiresApproval ==
  /\ \A k \in 1..Len(history) :
       items[history[k].reviewItemId].status \in ApprovedStatuses
  /\ \A c \in 1..Len(calls) :
       calls[c].pc \in {"apply", "record", "returned"}
         => items[calls[c].item].status \in ApprovedStatuses

\* C3, for the integrations made through integrateApproved.
C3_IntegrateApprovedRequiresApproval ==
  /\ \A k \in 1..Len(history) :
       history[k].via = "approved"
         => items[history[k].reviewItemId].status \in ApprovedStatuses
  /\ \A c \in 1..Len(calls) :
       calls[c].via = "approved"
         => items[calls[c].item].status \in ApprovedStatuses

\* C4: the code an integration of an approved or modified item applied is
\* code that passes validation: validate finds it valid, with a score of at
\* least minValidationScore.
C4_IntegratedCodePassesValidation ==
  \A k \in 1..Len(history) :
    history[k].via = "approved"
      => ValidationPassed(validate(history[k].kind, history[k].applied),
                          minValidationScore)

\* C4, for the items approved as generated.
C4_UneditedIntegratedCodePassesValidation ==
  \A k \in 1..Len(history) :
    (history[k].via = "approved" /\ items[history[k].reviewItemId].status = "approved")
      => ValidationPassed(validate(history[k].kind, history[k].applied),
                          minValidationScore)

\* C5: when runCycle's validation of a generated artifact fails, the same
\* step queues a gap-only review item for the artifact's source gap.
C5_FailedArtifactIsQueuedAsGapReview ==
  [][(/\ cycle.pc = "generated"
      /\ cycle' # cycle
      /\ ~ValidationPassed(validate(cycle.gen.kind, cycle.gen.code), minValidationScore))
       => \E i \in queued' \ queued :
            /\ items'[i].type = "gap_detection"
            /\ items'[i].gap = GapsWithAction(cycle.gaps, ActionableActions)[cycle.next]]_vars

\* C5, for the artifacts that pass validation: each is queued for review.
C5_PassedArtifactIsQueued ==
  [][(/\ cycle.pc = "generated"
      /\ cycle' # cycle
      /\ ValidationPassed(validate(cycle.gen.kind, cycle.gen.code), minValidationScore))
       => \E i \in queued' \ queued :
            /\ items'[i].type = "code_generation"
            /\ items'[i].gen = cycle.gen]_vars

\* Two integrations of different approved items into one target.
SameTargetPair(k, l) ==
  /\ k # l
  /\ history[k].via = "approved" /\ history[l].via = "approved"
  /\ history[k].reviewItemId # history[l].reviewItemId
  /\ history[k].targetFile = history[l].targetFile

\* C7: of two integrations of different approved items into one target,
\* each one's backup holds the target's content as it was just before that
\* integration's own write, and the target holds both artifacts.
C7_BackupThenWriteIsAtomic ==
  \A k, l \in 1..Len(history) :
    SameTargetPair(k, l) =>
      /\ history[k].backupPath # NoPath
           => backups[history[k].backupPath] = history[k].before
      /\ Piece(history[k].generatedCodeId, history[k].applied)
           \in Range(files[history[k].targetFile].content)

\* C7, the second half alone: no update is lost.
C7_NoLostUpdate ==
  \A k, l \in 1..Len(history) :
    SameTargetPair(k, l) =>
      Piece(history[k].generatedCodeId, history[k].applied)
        \in Range(files[history[k].targetFile].content)

\* =================================================== claims: rollback

\* A step in which rollback(id) restored a backup and returned true.
RollbackSucceeds(id) ==
  /\ ret'.op = "rollback" /\ ret'.id = id /\ ret'.outcome = "ok"
  /\ history' # history

\* The records of this session's integrations that bear the id.
RecordsWithId(h, id) == {k \in 1..Len(h) : h[k].id = id /\ h[k].via # "imported"}

\* C11: a successful rollback of an integration leaves the integration's
\* target file with exactly the content it had when integrate was called,
\* for every integration that was given the id passed to rollback.
C11_RollbackRestoresStateBeforeIntegration ==
  [][\A id \in 0..MaxTime :
       RollbackSucceeds(id) =>
         \A k \in RecordsWithId(history, id) :
           files'[history[k].targetFile] = history[k].atCall]_vars

\* C11 for the integrations that share neither their id nor their backup
\* file with another integration.
C11_RollbackOfDistinctIntegrationRestores ==
  [][\A id \in 0..MaxTime :
       RollbackSucceeds(id) =>
         \A k \in RecordsWithId(history, id) :
           (/\ RecordsWithId(history, id) = {k}
            /\ \A l \in 1..Len(history) :
                 l # k => history[l].backupPath # history[k].backupPath
            /\ \A c \in 1..Len(calls) :
                 calls[c].backup = history[k].backupPath
                   => calls[c].atCall = history[k].atCall)
             => files'[history[k].targetFile] = history[k].atCall]_vars

\* A step in which rollback(id) was called and returned or threw.
RollbackCalled(id) == ret'.op = "rollback" /\ ret'.id = id /\ ret' # ret

C12_WitnessNoBackup ==
  /\ ret.op = "rollback" /\ ret.outcome = "not_rollbackable"
  /\ LET k == FindEntry(history, ret.id)
     IN k # 0 /\ history[k].backupPath = NoPath /\ history[k].action = "created"

\* =================================================== claims: integration records

\* The integrate calls that returned success: true.
SucceededCalls == {c \in 1..Len(calls) : calls[c].pc = "returned" \/ calls[c] = DoneCall}

\* The integrate calls that returned action 'failed' after a backup.
FailedCalls == {c \in 1..Len(calls) : calls[c].action = "failed"}

C13_HistoryCount ==
  /\ Len(history) = Cardinality(SucceededCalls) + Cardinality(Imported(history))
  /\ \A c \in FailedCalls : calls[c].backup # NoPath => calls[c].backup \in DOMAIN backups

C13_IntegrateStep ==
  /\ \A c \in 1..Len(calls) :
       calls[c].pc = "record" /\ calls'[c].pc # "record" =>
         /\ Len(history') = Len(history) + 1
         /\ SubSeq(history', 1, Len(history)) = history
         /\ history'[Len(history')].reviewItemId = calls[c].item
         /\ history'[Len(history')].backupPath = calls[c].backup
  /\ \A c \in 1..Len(calls) :
       calls[c].action # "failed" /\ calls'[c].action = "failed" =>
         /\ history' = history
         /\ backups' = backups
         /\ calls[c].backup \in DOMAIN backups'
  /\ (ret'.op = "integrate" /\ ret'.outcome = "failed") => history' = history
  /\ history' # history =>
       \/ \E c \in 1..Len(calls) : calls[c].pc = "record" /\ calls'[c].pc # "record"
       \/ calls' = calls /\ ret'.op \in {"importHistory", "rollback"}

\* C13: every integrate call that returns success appends exactly one record
\* to the history, for its item and with its backup; every call that returns
\* action 'failed' appends none and leaves the backup it took in place; and
\* the history's length is the number of successful integrations plus the
\* number of imported records.
C13_OneRecordPerSuccessfulIntegration ==
  []C13_HistoryCount /\ [][C13_IntegrateStep]_vars

\* One integration succeeded, another failed after its backup was taken, and
\* a history was imported.
C13_Witness ==
  /\ SucceededCalls # {}
  /\ \E c \in FailedCalls : calls[c].backup \in DOMAIN backups
  /\ Imported(history) # {}
  /\ Len(history) = Cardinality(SucceededCalls) + 1

\* =================================================== claims: removal from the queue

\* The integrate call c returned success on an earlier step and its caller,
\* integrateApproved or integrateAllApproved, resumes on this one.
ResumesAfterSuccess(c) ==
  /\ calls[c].pc = "returned"
  /\ calls'[c].pc = "done"
  /\ calls[c].via \in {"approved", "all"}

\* The caller of the integrate call c resumes with a result whose action is
\* 'failed'.
ResumesAfterFailure(c) ==
  /\ calls[c].pc = "failed"
  /\ calls'[c].pc = "done"

\* C14: an item leaves the queue only on the step on which integrateApproved
\* or integrateAllApproved resumes after a successful integrate of that very
\* item, which left a record for it; a step on which one of them resumes with
\* a failed result, or on which integrate fails at once, removes nothing and
\* leaves the item's status as it was; no other step (review, listing, sweep,
\* cycle) removes an item.
C14_RemovedOnlyBySuccessfulIntegration ==
  [][/\ \A i \in queued \ queued' :
          \E c \in 1..Len(calls) :
            /\ ResumesAfterSuccess(c)
            /\ calls[c].item = i
            /\ \E k \in 1..Len(history) : history[k].reviewItemId = i
     /\ \A c \in 1..Len(calls) :
          ResumesAfterFailure(c) =>
            /\ queued' = queued
            /\ \A i \in queued : items'[i].status = items[i].status
     /\ (ret'.op = "integrate" /\ ret'.outcome = "failed") =>
          /\ queued' = queued
          /\ \A i \in queued : items'[i].status = items[i].status]_vars

\* integrateApproved returned a failed result for an approved item that is
\* still queued, after another item was integrated and removed.
C14_Witness ==
  /\ ret.op = "integrateApproved" /\ ret.outcome = "failed"
  /\ ret.id \in queued
  /\ items[ret.id].status = "approved"
  /\ itemCounter > Cardinality(queued)
  /\ history # <<>>

\* =================================================== claims: insertion

\* The artifact of item i has the replace strategy, and the content that
\* applyCode read from the existing target lacks the text to replace.
ReplaceWithoutMarker(i, before) ==
  /\ items[i].gen # NoGen
  /\ InsertionOf(items[i].gen).mode = "replace"
  /\ IndexOf(before, InsertionOf(items[i].gen).marker) = 0

\* C15: an integrate call of a replace artifact whose existing target lacks
\* the text to replace never reaches the point where it records and returns
\* success, and no record of such an integration is in the history.
C15_ReplaceWithoutMarkerFails ==
  /\ \A c \in 1..Len(calls) :
       (/\ calls[c].pc \in {"record", "returned"}
        /\ calls[c].atCall.exists
        /\ ReplaceWithoutMarker(calls[c].item, calls[c].before))
         => calls[c].action = "failed"
  /\ \A k \in 1..Len(history) :
       history[k].via # "imported" /\ history[k].atCall.exists
         => ~ReplaceWithoutMarker(history[k].reviewItemId, history[k].before)

\* C15, the part that holds: such an integration leaves the target's content
\* as applyCode read it.
C15_ReplaceWithoutMarkerKeepsTarget ==
  [][\A c \in 1..Len(calls) :
       (/\ calls[c].pc = "apply" /\ calls'[c].pc = "record"
        /\ ReplaceWithoutMarker(calls[c].item, files[items[calls[c].item].gen.target].content))
         => files' = files]_vars

\* =================================================== claims: created or modified

\* What a successful integrate call reports and records, against the target
\* as it was when integrate was called.
ActionMatchesTarget(action, atCall, backup) ==
  /\ action \in {"created", "modified"}
  /\ action = "created" <=> ~atCall.exists
  /\ action = "modified" <=> atCall.exists
  /\ atCall.exists => backup # NoPath /\ backup \in DOMAIN backups
  /\ ~atCall.exists => backup = NoPath

C16_Recorded ==
  /\ \A c \in 1..Len(calls) :
       calls[c].pc \in {"record", "returned"}
         => ActionMatchesTarget(calls[c].action, calls[c].atCall, calls[c].backup)
  /\ \A k \in 1..Len(history) :
       history[k].via # "imported" =>
         /\ ActionMatchesTarget(history[k].action, history[k].atCall, history[k].backupPath)
         /\ history[k].canRollback <=> history[k].atCall.exists

\* The step on which integrate is called for an existing target copies the
\* target's content to the backup the call will report.
C16_BackupTaken ==
  Len(calls') = Len(calls) + 1 =>
    LET c == calls'[Len(calls')]
    IN /\ c.atCall = files[items[c.item].gen.target]
       /\ c.atCall.exists => backups'[c.backup] = c.atCall.content

\* C16: a successful integrate reports and records action 'created' exactly
\* when its target did not exist when it was called and 'modified' exactly
\* when it existed; for an existing target the content at the call was copied
\* to a backup, and that backup's path is in the result and in the record.
C16_CreatedOrModifiedWithBackup ==
  []C16_Recorded /\ [][C16_BackupTaken]_vars

\* The history holds the record of an integration that created its target and
\* the record of a later one that modified it after a backup.
C16_Witness ==
  \E k, l \in 1..Len(history) :
    /\ history[k].action = "created" /\ ~history[k].atCall.exists
    /\ history[k].backupPath = NoPath
    /\ history[l].action = "modified" /\ history[l].atCall.exists
    /\ history[l].backupPath \in DOMAIN backups
    /\ history[l].targetFile = history[k].targetFile

\* =================================================== claims: gap analysis

\* The review items runCycle created without an artifact.
GapOnlyItems == {i \in 1..Len(items) : items[i].gen = NoGen}

\* C17: every review item created without an artifact has the priority that
\* is its gap's severity, except that the item of an axiom_tension gap has
\* priority high or critical.
C17_GapReviewPriorityIsSeverity ==
  \A i \in GapOnlyItems :
    IF items[i].gap.type = "axiom_tension"
    THEN items[i].priority \in {"high", "critical"}
    ELSE items[i].priority = items[i].gap.severity

\* C17 for the gaps of severity high or critical, and for the axiom_tension
\* gaps that addAxiomReview queues.
C17_PriorityOfSevereGaps ==
  \A i \in GapOnlyItems :
    /\ items[i].gap.severity \in {"high", "critical"}
         => items[i].priority = items[i].gap.severity
    /\ items[i].type = "axiom_tension" => items[i].priority \in {"high", "critical"}
    /\ items[i].gap.severity \in {"low", "medium"} /\ items[i].type = "gap_detection"
         => items[i].priority = "medium"

\* The claim's words for broken nesting: a higher stratum is true while a
\* lower one is false.
HigherWithoutLower(entity) ==
  \E lo, hi \in 1..Len(order) :
    lo < hi /\ order[hi] \in entity.strata /\ order[lo] \notin entity.strata

\* The analysis holds a critical axiom_tension gap with action axiom_review
\* for the entity.
HasNestingGap(gaps, entity) ==
  \E k \in 1..Len(gaps) :
    gaps[k] = EntityGap("axiom_tension", "critical", "axiom_review", entity.id)

\* The state holds the result of an analysis of entities.
Analyzed == cycle.entities # <<>> /\ cycle.pc # "idle"

\* C18: after an analysis, each entity, of any domain, with a higher stratum
\* true while a lower one is false has a critical axiom_tension gap with
\* action axiom_review, and an entity whose active strata are a contiguous
\* prefix of the order has none.
C18_NestingGapForEveryBrokenNesting ==
  Analyzed =>
    \A k \in 1..Len(cycle.entities) :
      HigherWithoutLower(cycle.entities[k]) <=> HasNestingGap(cycle.gaps, cycle.entities[k])

\* C18, the half that holds: an entity with a nesting gap has a higher
\* stratum without a lower one, so a contiguous prefix has no such gap.
C18_NoNestingGapForPrefix ==
  Analyzed =>
    \A k \in 1..Len(cycle.entities) :
      HasNestingGap(cycle.gaps, cycle.entities[k]) => HigherWithoutLower(cycle.entities[k])

\* What the code emits the gap for: an entity outside the IDEAL domain whose
\* active strata have a hole between two of them.
C18_NestingGapForHoles ==
  Analyzed =>
    \A k \in 1..Len(cycle.entities) :
      LET e == cycle.entities[k]
          Hole == \E lo, mid, hi \in 1..Len(order) :
                    /\ lo < mid /\ mid < hi
                    /\ order[lo] \in e.strata /\ order[mid] \notin e.strata
                    /\ order[hi] \in e.strata
      IN HasNestingGap(cycle.gaps, e) <=> (e.domain # "IDEAL" /\ Hole)

\* The entity of the scenario: closure 0.85, scope 0.75, MATTER and LOGOS
\* without LIFE and SENTIENCE.
IsScenarioEntity(entity) ==
  /\ entity.closure = 85
  /\ entity.scope = 75
  /\ entity.strata = {"MATTER", "LOGOS"}

\* The analysis holds a low-severity axiom_tension gap for the entity's
\* closure and scope.
HasClosureScopeGap(gaps, entity) ==
  \E k \in 1..Len(gaps) :
    gaps[k] = EntityGap("axiom_tension", "low", "manual_review", entity.id)

\* C19: after an analysis, the scenario entity has a critical axiom_tension
\* gap with action axiom_review and, when its domain is not the exempt IDEAL
\* domain, a separate low-severity axiom_tension gap for its closure and
\* scope; no entity of the IDEAL domain has the closure-scope gap.
C19_ScenarioEntityGetsBothTensionGaps ==
  Analyzed =>
    \A k \in 1..Len(cycle.entities) :
      LET e == cycle.entities[k]
      IN /\ IsScenarioEntity(e) =>
              /\ HasNestingGap(cycle.gaps, e)
              /\ e.domain # "IDEAL" => HasClosureScopeGap(cycle.gaps, e)
         /\ e.domain = "IDEAL" => ~HasClosureScopeGap(cycle.gaps, e)

\* C19, the parts that hold: the scenario entity outside the IDEAL domain has
\* the critical gap, an entity has the closure-scope gap exactly when it is
\* outside the IDEAL domain with closure and scope both above 0.8, and the
\* scenario entity, whose scope is 0.75, has none.
C19_ClosureScopeGapAboveThreshold ==
  Analyzed =>
    \A k \in 1..Len(cycle.entities) :
      LET e == cycle.entities[k]
      IN /\ IsScenarioEntity(e) /\ e.domain # "IDEAL" => HasNestingGap(cycle.gaps, e)
         /\ HasClosureScopeGap(cycle.gaps, e)
              <=> (e.domain # "IDEAL" /\ e.closure > HighClosureScope
                                       /\ e.scope > HighClosureScope)
         /\ IsScenarioEntity(e) => ~HasClosureScopeGap(cycle.gaps, e)

\* =================================================== claims: no artifact without a generative action

ReviewActions == {"manual_review", "axiom_review"}

\* C20: generate returns null for a gap whose suggested action is
\* manual_review or axiom_review; runCycle never holds an artifact for such
\* a gap and queues it as a review item without an artifact; and every
\* critical axiom_tension gap of an analysis has action axiom_review.
C20_NoArtifactForReviewGaps ==
  /\ ret.op = "generate" =>
       (ret.list[1].action \in ReviewActions <=> ret.outcome = "null")
  /\ cycle.pc = "generated" =>
       /\ cycle.gen # NoGen
       /\ GapsWithAction(cycle.gaps, ActionableActions)[cycle.next].action \notin ReviewActions
  /\ \A i \in 1..Len(items) :
       items[i].gap.action \in ReviewActions =>
         items[i].gen = NoGen /\ items[i].type \in {"gap_detection", "axiom_tension"}
  /\ \A k \in 1..Len(cycle.gaps) :
       cycle.entities # <<>> /\ cycle.gaps[k].type = "axiom_tension"
         /\ cycle.gaps[k].severity = "critical"
         => cycle.gaps[k].action = "axiom_review"

\* generate returned null for a review gap after a cycle queued a bare
\* review item for the critical axiom_tension gap of its analysis.
C20_Witness ==
  /\ ret.op = "generate" /\ ret.outcome = "null"
  /\ ret.list[1].action \in ReviewActions
  /\ \E j \in 1..Len(items) :
       /\ items[j].gen = NoGen
       /\ items[j].gap.action = "axiom_review"
       /\ items[j].gap.severity = "critical"
  /\ \E k \in 1..Len(cycle.gaps) :
       cycle.entities # <<>> /\ cycle.gaps[k].type = "axiom_tension"
         /\ cycle.gaps[k].severity = "critical"

\* A cycle over a misfit cluster and a tension queued an artifact for the
\* first and a bare review item for the second.
C20_WitnessMixedCycle ==
  \E i, j \in 1..Len(items) :
    /\ items[i].gen # NoGen /\ items[i].gap.action \notin ReviewActions
    /\ items[j].gen = NoGen /\ items[j].gap.action \in ReviewActions

\* =================================================== claims: clustering

\* The grid cells that hold an entity of the analysis.
Buckets == {CellOf(cycle.entities[k]) : k \in 1..Len(cycle.entities)}

BucketMembers(key) == {k \in 1..Len(cycle.entities) : CellOf(cycle.entities[k]) = key}

BucketDomains(key) == {cycle.entities[k].domain : k \in BucketMembers(key)}

\* The analysis holds a clustering_anomaly gap whose first evidence is the
\* first entity of the bucket.
HasAnomalyGap(key) ==
  \E g \in 1..Len(cycle.gaps) :
    /\ cycle.gaps[g].type = "clustering_anomaly"
    /\ cycle.gaps[g].entity \in BucketMembers(key)

\* C21: after an analysis, a bucket of the grid has a clustering_anomaly gap
\* exactly when it holds at least 3 entities of more than 2 distinct domains.
C21_AnomalyGapForEveryMixedBucket ==
  Analyzed =>
    \A key \in Buckets :
      HasAnomalyGap(key)
        <=> (Cardinality(BucketMembers(key)) >= 3 /\ Cardinality(BucketDomains(key)) > 2)

\* What the code emits the gap for: a bucket of at least 5 entities of more
\* than 2 domains, and one gap for each.
C21_AnomalyGapForBucketsOfFive ==
  Analyzed =>
    /\ \A key \in Buckets :
         HasAnomalyGap(key)
           <=> (Cardinality(BucketMembers(key)) >= 5 /\ Cardinality(BucketDomains(key)) > 2)
    /\ \A g, h \in 1..Len(cycle.gaps) :
         (/\ cycle.gaps[g].type = "clustering_anomaly"
          /\ cycle.gaps[h].type = "clustering_anomaly"
          /\ cycle.gaps[g].entity = cycle.gaps[h].entity) => g = h

C21_WitnessBucketOfFive ==
  Analyzed /\ \E key \in Buckets : HasAnomalyGap(key)

\* =================================================== claims: validation flags
\* What validate returns for the artifacts that are held by review items, as
\* generated or as edited by a reviewer.
QueuedValidations ==
  {validate(items[i].gen.kind, items[i].gen.code)
     : i \in {k \in 1..Len(items) : items[k].gen # NoGen}}

HasReviewReason(validation) ==
  \/ validation.reviewWarnings > 0
  \/ \E v \in validation.violations : v.severity = "error"

\* C22: validate returns requiresHumanReview = true exactly when its warnings
\* hold a warning flagged requiresReview (from an axiom check or from the
\* self-justification) or its violations hold a non-fatal one.
C22_ReviewFlagIffReviewWarningOrError ==
  \A validation \in QueuedValidations :
    validation.requiresHumanReview <=> HasReviewReason(validation)

\* The direction the code keeps: a raised flag has a review-flagged warning
\* or a non-fatal violation behind it.
C22_ReviewFlagHasReason ==
  \A validation \in QueuedValidations :
    validation.requiresHumanReview => HasReviewReason(validation)

C22_WitnessFlagged ==
  \E validation \in QueuedValidations : validation.requiresHumanReview

\* =================================================== claims: name registries
ValidateReturned == ret.op = "validate"
ValidatedArtifact == ret.list[1]
ReturnedValidation == ret.list[2]

\* The registry of existing names of a kind of artifact.
RegistryOf(kind) ==
  CASE kind = "domain" -> existingDomains
    [] kind = "capability" -> existingCapabilities
    [] OTHER -> {}

\* The proposed name equals an existing name of the same kind, ignoring case.
NameCollides(artifact) ==
  \E existing \in RegistryOf(artifact.kind) :
    toUpperCase(NameOf(artifact.code)) = toUpperCase(existing)

HasFatalViolation(validation) == \E v \in validation.violations : v.severity = "fatal"

\* C23: for a domain or a capability whose proposed name equals an existing
\* name of its kind ignoring case, validate returns a fatal violation and
\* valid = false.
C23_CollidingNameIsFatal ==
  (ValidateReturned /\ NameCollides(ValidatedArtifact)) =>
    (HasFatalViolation(ReturnedValidation) /\ ~ReturnedValidation.valid)

\* What the code does: the collision is fatal for a capability, and for a
\* domain it raises the review flag.
C23_CollidingCapabilityIsFatal ==
  (ValidateReturned /\ NameCollides(ValidatedArtifact)) =>
    IF ValidatedArtifact.kind = "capability"
    THEN HasFatalViolation(ReturnedValidation) /\ ~ReturnedValidation.valid
    ELSE ReturnedValidation.requiresHumanReview

C23_WitnessCapability ==
  /\ ValidateReturned
  /\ ValidatedArtifact = [kind |-> "capability", code |-> "CapabilityPersist"]
  /\ ~ReturnedValidation.valid

C23_WitnessDomain ==
  /\ ValidateReturned
  /\ ValidatedArtifact = [kind |-> "domain", code |-> "DomainLiving"]
  /\ ReturnedValidation.valid

\* =================================================== claims: persistence
ImportReturned == ret.op = "importState" /\ ret.outcome = "ok"
ExportedQueue == ret.list[1]
ExportedHistory == ret.list[2]

\* The queue holds exactly the exported items, with their status and
\* priority.
QueueIsExported ==
  /\ queued = ExportedIds(ExportedQueue)
  /\ \A k \in 1..Len(ExportedQueue) :
       /\ items[ExportedQueue[k].id].status = ExportedQueue[k].item.status
       /\ items[ExportedQueue[k].id].priority = ExportedQueue[k].item.priority

HistoryIs(entries) ==
  /\ Len(history) = Len(entries)
  /\ \A k \in 1..Len(entries) :
       /\ history[k].id = entries[k].id
       /\ history[k].canRollback = entries[k].canRollback

\* C24: when importState has returned for a snapshot of exportState, the
\* engine holds exactly the exported review items and exactly the exported
\* integration records, none duplicated, also on the engine that exported.
C24_ImportLeavesExportedState ==
  ImportReturned => (QueueIsExported /\ HistoryIs(ExportedHistory))

\* C24, termination: an importState that has started returns.
C24_ImportTerminates == Importing ~> ImportReturned

\* What the code does: the queue round-trips; the history round-trips on a
\* new engine and holds every exported record twice on the engine that
\* exported.
C24_ImportOnNewEngineLeavesExportedState ==
  ImportReturned =>
    /\ QueueIsExported
    /\ IF ret.id = 1 THEN HistoryIs(ExportedHistory)
       ELSE HistoryIs(ExportedHistory \o ExportedHistory)

C24_WitnessNewEngine ==
  ImportReturned /\ ret.id = 1 /\ ExportedHistory # <<>> /\ ExportedQueue # <<>>

C24_WitnessDuplicated ==
  ImportReturned /\ ret.id = 0 /\ ExportedHistory # <<>> /\ Len(history) = 2 * Len(ExportedHistory)

\* =================================================== claims: failing cycles
ActionableOf(cyc) == GapsWithAction(cyc.gaps, ActionableActions)

ReviewGapsOf(cyc) == GapsWithAction(cyc.gaps, {"manual_review", "axiom_review"})

\* The gaps of phase 2 that the cycle is through with: failed with an error,
\* failed validation, or queued.
GapsAccounted(cyc) ==
  Len(cyc.errors) + Cardinality(cyc.failed) + cyc.validationsPassed

\* A step in which the generation or validation of the current gap fails.
GapFailureStep == cycle.pc = "generated" /\ cycle'.errors # cycle.errors

CycleReturnedOk == cycle.pc = "done" /\ ret.op = "runCycle" /\ ret.outcome = "ok"

\* C25: a failure for one gap adds exactly one entry to errors, naming that
\* gap; the items queued so far stay queued with their artifact; the next gap
\* is generated, or after the last one phases 4 and 5 queue every review gap;
\* and a cycle that went through phase 2 has accounted for every gap once.
C25_FailureIsRecordedAndCycleGoesOn ==
  /\ [](cycle.pc = "generated" => GapsAccounted(cycle) = cycle.next - 1)
  /\ [](CycleReturnedOk => GapsAccounted(cycle) = Len(ActionableOf(cycle)))
  /\ [][GapFailureStep =>
          /\ cycle'.errors = Append(cycle.errors, cycle.next)
          /\ cycle'.failed = cycle.failed
          /\ cycle'.validationsPassed = cycle.validationsPassed
          /\ queued \subseteq queued'
          /\ \A i \in 1..Len(items) : items'[i].gen = items[i].gen
          /\ IF cycle.next < Len(ActionableOf(cycle))
             THEN /\ cycle'.pc = "generated"
                  /\ cycle'.next = cycle.next + 1
                  /\ cycle'.gen # NoGen
                  /\ items' = items
             ELSE /\ cycle'.pc = "done"
                  /\ Len(items') = Len(items) + Len(ReviewGapsOf(cycle))
                  /\ queued' = queued \cup (Len(items) + 1)..Len(items')]_vars

\* A cycle whose first gap failed and whose second gap was queued.
C25_WitnessLaterGapQueued ==
  /\ CycleReturnedOk
  /\ cycle.errors = <<1>>
  /\ cycle.validationsPassed = 1
  /\ \E i \in queued : items[i].type = "code_generation"

\* A cycle whose first gap was queued and whose second gap failed.
C25_WitnessEarlierItemKept ==
  /\ CycleReturnedOk
  /\ cycle.errors = <<2>>
  /\ \E i \in queued : items[i].type = "code_generation" /\ items[i].status = "pending"

\* =================================================== claims: single integration
\* The records of the integrations of a review item.
RecordsOfItem(i) ==
  {k \in 1..Len(history) : history[k].via # "imported" /\ history[k].reviewItemId = i}

\* The integrate calls that have written the artifact of a review item to
\* its target.
AppliedCallsOfItem(i) ==
  {c \in 1..Len(calls) : calls[c].item = i /\ calls[c].pc \in {"record", "returned"}}

\* C26: whatever the interleaving of integrateApproved and
\* integrateAllApproved calls, a review item has at most one integration
\* record and its artifact is written to the target at most once.
C26_AtMostOneIntegrationPerItem ==
  \A i \in 1..Len(items) :
    /\ Cardinality(RecordsOfItem(i)) <= 1
    /\ Cardinality(RecordsOfItem(i)) + Cardinality(AppliedCallsOfItem(i)) <= 1

\* What the code ensures: once markIntegrated has removed an item,
\* integrateApproved starts no integration of it (integrateAllApproved still
\* does, for an item that was on its list).
C26_NoIntegrateApprovedAfterRemoval ==
  [][\A i \in 1..Len(items) :
       (i \notin queued /\ RecordsOfItem(i) # {}) =>
         \A c \in 1..Len(calls') :
           (calls'[c].item = i /\ calls'[c].via = "approved"
              /\ calls'[c].pc \in {"apply", "record"}) =>
             (c <= Len(calls) /\ calls[c].item = i)]_vars

C26_WitnessIntegratedTwice ==
  \E i \in 1..Len(items) : Cardinality(RecordsOfItem(i)) = 2

\* =================================================== claims: review gaps
\* The step in which runCycle returns.
CycleReturns == cycle.pc # "done" /\ cycle'.pc = "done"

\* Every manual_review or axiom_review gap of the cycle has a pending item
\* that the cycle added to the queue.
ReviewGapsQueued ==
  \A k \in 1..Len(ReviewGapsOf(cycle)) :
    \E i \in (Len(items) + 1)..Len(items') :
      /\ i \in queued'
      /\ items'[i].gap = ReviewGapsOf(cycle)[k]
      /\ items'[i].status = "pending"

\* C27: when runCycle returns, every gap of the analysis whose action is
\* manual_review or axiom_review is in the queue as a pending item, however
\* many items were pending and whether or not generation is enabled.
C27_ReviewGapsAlwaysQueued == [][CycleReturns => ReviewGapsQueued]_vars

\* What the code does: the review gaps are queued by the cycles that get past
\* both early returns.
C27_ReviewGapsQueuedAfterPhaseTwo ==
  [][(CycleReturns /\ ret'.outcome = "ok") => ReviewGapsQueued]_vars

C27_WitnessQueued ==
  /\ CycleReturnedOk
  /\ ReviewGapsOf(cycle) # <<>>
  /\ \E i \in queued : items[i].type = "axiom_tension" /\ items[i].status = "pending"

C27_WitnessDisabled ==
  /\ cycle.pc = "done"
  /\ ret.outcome = "disabled"
  /\ GapTensionCritical \in Range(cycle.gaps)
  /\ queued = {}

\* =================================================== claims: score bound
\* 4/7 - 0.1 and 0.6 on the scale of the scores.
MaxGeneratedScore == (4 * ScoreScale) \div 7 - ScoreScale \div 10

StrictMinValidationScore == (6 * ScoreScale) \div 10

C28_WitnessAllFailed ==
  /\ minValidationScore = MinValidationScoreDefault
  /\ CycleReturnedOk
  /\ Cardinality(cycle.failed) = 2

\* =================================================== claims: rollback order
ChangeOf(entry) == Piece(entry.generatedCodeId, entry.applied)

\* Record b is of a later integration than record a that modified the same
\* target: it was called when the target held a's change.
LaterOnSameTarget(h, a, b) ==
  /\ a < b
  /\ h[b].targetFile = h[a].targetFile
  /\ ChangeOf(h[a]) \in Range(h[b].atCall.content)

\* The integration of record k shares neither its id nor its backup file
\* with another integration.
DistinctIntegration(k) ==
  /\ RecordsWithId(history, history[k].id) = {k}
  /\ \A l \in 1..Len(history) : l # k => history[l].backupPath # history[k].backupPath
  /\ \A c \in 1..Len(calls) :
       calls[c].backup = history[k].backupPath => calls[c].atCall = history[k].atCall

\* What rollback of record a does when later integrations changed the same
\* target: the content from before a is back, every later record keeps its
\* flag and its change is gone; and when an earlier record of the same
\* target was rolled back before, the content put back holds that record's
\* change again.
RollbackIgnoresOrder(a) ==
  LET target == history[a].targetFile
  IN /\ files'[target] = history[a].atCall
     /\ \A b \in 1..Len(history) :
          LaterOnSameTarget(history, a, b) =>
            /\ history'[b].canRollback = history[b].canRollback
            /\ ChangeOf(history[b]) \notin Range(files'[target].content)
     /\ \A e \in 1..Len(history) :
          (LaterOnSameTarget(history, e, a) /\ ~history[e].canRollback) =>
            ChangeOf(history[e]) \in Range(files'[target].content)

\* C29: rollback(A) restores the content backed up just before integration
\* A even when a later integration B modified the same target: B's change
\* is discarded, B's record keeps rollback-possible = true, and a later
\* rollback(B) puts back a content that holds A's change although A's record
\* says it was rolled back.
C29_RollbackDiscardsLaterIntegration ==
  [][\A id \in 0..MaxTime :
       RollbackSucceeds(id) =>
         \A a \in RecordsWithId(history, id) : RollbackIgnoresOrder(a)]_vars

\* C29 for the integrations that share neither their id nor their backup
\* file with another integration.
C29_RollbackOfDistinctDiscardsLater ==
  [][\A id \in 0..MaxTime :
       RollbackSucceeds(id) =>
         \A a \in RecordsWithId(history, id) :
           DistinctIntegration(a) => RollbackIgnoresOrder(a)]_vars

\* rollback(A) has discarded the change of a later integration B, whose
\* record can still be rolled back.
C29_WitnessLaterDiscarded ==
  /\ ret.op = "rollback" /\ ret.outcome = "ok"
  /\ \E a, b \in 1..Len(history) :
       /\ history[a].id = ret.id /\ history[b].id # ret.id
       /\ LaterOnSameTarget(history, a, b)
       /\ ~history[a].canRollback /\ history[b].canRollback
       /\ files[history[a].targetFile] = history[a].atCall
       /\ ChangeOf(history[b]) \notin Range(files[history[a].targetFile].content)

\* rollback(B) after rollback(A) has put A's change back.
C29_WitnessEarlierChangeBack ==
  /\ ret.op = "rollback" /\ ret.outcome = "ok"
  /\ \E a, b \in 1..Len(history) :
       /\ history[b].id = ret.id /\ history[a].id # ret.id
       /\ LaterOnSameTarget(history, a, b)
       /\ ~history[a].canRollback /\ ~history[b].canRollback
       /\ ChangeOf(history[a]) \in Range(files[history[a].targetFile].content)

\* =================================================== claims: record ids
\* C30: the ids of the integration records of the history are pairwise
\* different, and a successful rollback(id) acts on the one record that bears
\* the id: only that record's flag changes.
C30_RecordIdsUnique ==
  /\ [](\A k, l \in 1..Len(history) : history[k].id = history[l].id => k = l)
  /\ [][\A id \in 0..MaxTime :
          RollbackSucceeds(id) =>
            /\ Cardinality(RecordsWithId(history, id)) = 1
            /\ \A k \in RecordsWithId(history, id) :
                 history' = [history EXCEPT ![k].canRollback = FALSE]]_vars

\* What the code ensures: a record's id is the clock value at which it is
\* pushed, so records pushed at different clock values have different ids;
\* and rollback changes the first record that bears the id.
C30_IdsUniqueAcrossTime ==
  /\ [][Len(history') > Len(history) /\ ret'.op # "importHistory" =>
          history'[Len(history')].id = now]_vars
  /\ [][\A id \in 0..MaxTime :
          RollbackSucceeds(id) =>
            history' = [history EXCEPT ![FindEntry(history, id)].canRollback = FALSE]]_vars

\* Two records of one integrateAllApproved call, or of two calls, that bear
\* the same id.
C30_WitnessSameId ==
  \E k, l \in 1..Len(history) : k < l /\ history[k].id = history[l].id

====
